---- MODULE Spec2Model ----
(***************************************************************************)
(* Model of the request handlers of the smart-image-analysis platform:     *)
(* the main analysis handler (src/lambda/sap-claude-handler/               *)
(* lambda_function.py) with its helpers, and the image handlers.           *)
(*                                                                         *)
(* Text.  A Python str is modelled as a sequence of characters.  A         *)
(* character is a one-character string; a character outside printable     *)
(* ASCII is written by its code point, "U+5186".  The keyword tables are   *)
(* the literals of the source, character by character.                     *)
(***************************************************************************)
EXTENDS Integers, Sequences, FiniteSets, Bags, TLC

\* ------------------------------------------------------------------ text

\* str.lower(), with the characters it changes and what it changes them
\* to.
lower(s) ==
    LET LowerChars == <<"a", "b", "c", "d", "e", "f", "g", "h", "i", "j", "k", "l", "m", "n", "o", "p", "q", "r", "s", "t", "u", "v", "w", "x", "y", "z", "U+00E0", "U+00E1", "U+00E2", "U+00E3", "U+00E4", "U+00E5", "U+00E6", "U+00E7", "U+00E8", "U+00E9", "U+00EA", "U+00EB", "U+00EC", "U+00ED", "U+00EE", "U+00EF", "U+00F0", "U+00F1", "U+00F2", "U+00F3", "U+00F4", "U+00F5", "U+00F6", "U+00F8", "U+00F9", "U+00FA", "U+00FB", "U+00FC", "U+00FD", "U+00FE", "U+0153", "U+0161", "U+00FF", "U+017E", "U+0192">>
    IN  LET UpperChars == <<"A", "B", "C", "D", "E", "F", "G", "H", "I", "J", "K", "L", "M", "N", "O", "P", "Q", "R", "S", "T", "U", "V", "W", "X", "Y", "Z", "U+00C0", "U+00C1", "U+00C2", "U+00C3", "U+00C4", "U+00C5", "U+00C6", "U+00C7", "U+00C8", "U+00C9", "U+00CA", "U+00CB", "U+00CC", "U+00CD", "U+00CE", "U+00CF", "U+00D0", "U+00D1", "U+00D2", "U+00D3", "U+00D4", "U+00D5", "U+00D6", "U+00D8", "U+00D9", "U+00DA", "U+00DB", "U+00DC", "U+00DD", "U+00DE", "U+0152", "U+0160", "U+0178", "U+017D", "U+0191">>
        IN  [i \in 1..Len(s) |->
                IF \E k \in 1..Len(UpperChars) : UpperChars[k] = s[i]
                THEN LowerChars[CHOOSE k \in 1..Len(UpperChars) : UpperChars[k] = s[i]]
                ELSE s[i]]

\* Python's `sub in s` for two strings.
Contains(s, sub) ==
    \E i \in 1..(Len(s) - Len(sub) + 1) : \A j \in 1..Len(sub) : s[i + j - 1] = sub[j]

\* any(f in s for f in fragments)
AnyIn(fragments, s) == \E i \in 1..Len(fragments) : Contains(s, fragments[i])

\* x in s for a list s
InSeq(x, s) == \E i \in 1..Len(s) : s[i] = x

\* " ".join(strs)
RECURSIVE JoinSpace(_)
JoinSpace(strs) ==
    IF strs = <<>> THEN <<>>
    ELSE IF Len(strs) = 1 THEN strs[1]
    ELSE strs[1] \o <<" ">> \o JoinSpace(Tail(strs))

\* str.strip()
\* The characters str.strip() removes (those among the model's characters).
RECURSIVE strip(_)
strip(s) ==
    LET WhitespaceChars == {" ", "U+0009", "U+000A", "U+000D"}
    IN  IF s = <<>> THEN s
        ELSE IF s[1] \in WhitespaceChars THEN strip(Tail(s))
        ELSE IF s[Len(s)] \in WhitespaceChars THEN strip(SubSeq(s, 1, Len(s) - 1))
        ELSE s

\* The decimal digits int() and float() read.
DecimalDigits == <<"0", "1", "2", "3", "4", "5", "6", "7", "8", "9">>

IsDecimal(c) == \E i \in 1..10 : DecimalDigits[i] = c

\* str.isdigit(): every character is a decimal digit or a digit character
\* that is no decimal (superscript two, U+00B2, is one).
isdigit(s) == s # <<>> /\ \A i \in 1..Len(s) : IsDecimal(s[i]) \/ s[i] = "U+00B2"

\* int(s) for a string of decimal digits.
RECURSIVE DecimalValue(_)
DecimalValue(s) ==
    IF s = <<>> THEN 0
    ELSE 10 * DecimalValue(SubSeq(s, 1, Len(s) - 1))
             + (CHOOSE i \in 1..10 : DecimalDigits[i] = s[Len(s)]) - 1

\* int(s) raises ValueError on a string str.isdigit() accepts when one of
\* its characters is no decimal digit.
int_raises(s) == \E i \in 1..Len(s) : ~IsDecimal(s[i])

\* ------------------------------------------------------------ rows

\* A row of the request: a JSON object (the cells are its (key, value) pairs
\* in key order, each value by its str() image) or any other JSON value.
Record(cells) == [isRecord |-> TRUE, cells |-> cells]
NonRecord == [isRecord |-> FALSE, cells |-> <<>>]

\* list(row.keys())
keys(row) == [i \in 1..Len(row.cells) |-> row.cells[i][1]]

\* ------------------------------------------------------ the classifier

\* The order of the keys of the scores dict.
CategoryOrder ==
    <<"hr_data", "marketing_data", "sales_data", "financial_data",
      "inventory_data", "customer_data">>

Categories == {CategoryOrder[i] : i \in 1..Len(CategoryOrder)}
\* The keyword lists of the keyword scoring.
keyword_lists ==
    [ hr_strong_keywords |-> <<
    <<"U+00E7", "U+00A4", "U+00BE", "U+00E5", "U+201C", "U+00A1", "i", "d">>,
    <<"e", "m", "p", "l", "o", "y", "e", "e">>,
    <<"U+00E6", "U+00B0", "U+00E5">>,
    <<"U+00E9", "U+0192", "U+00A8", "U+00E7", "U+00BD", "U+00B2">>,
    <<"U+00E7", "U+00B5", "U+00A6", "U+00E4", "U+00B8">>,
    <<"s", "a", "l", "a", "r", "y">>,
    <<"U+00E8", "U+00B3", "U+00E4", "U+00B8">>,
    <<"U+00E5", "U+00B9", "U+00B4", "U+00E5">>,
    <<"U+00E8", "U+00A9", "U+2022", "U+00E4", "U+00BE", "U+00A1">>,
    <<"p", "e", "r", "f", "o", "r", "m", "a", "n", "c", "e">>,
    <<"U+00E6", "U+00AE", "U+2039", "U+00E6", "U+00A5", "U+00AD">>,
    <<"o", "v", "e", "r", "t", "i", "m", "e">>,
    <<"U+00E6", "U+0153", "U+2030", "U+00E7", "U+00B5", "U+00A6">>,
    <<"U+00E9", "U+203A", "U+00A2", "U+00E8", "U+00B7">>,
    <<"U+00E6", "U+02DC", "U+2021", "U+00E9", "U+20AC", "U+00B2">>,
    <<"U+00E3", "U+201A", "U+00B9", "U+00E3", "U+201A", "U+00AD", "U+00E3", "U+0192", "U+00AB">>,
    <<"U+00E3", "U+0192", "U+00E3", "U+0192", "U+00BC", "U+00E3", "U+0192", "U+00A0", "U+00E8", "U+00B2", "U+00A2", "U+00E7", "U+0152", "U+00AE">>,
    <<"U+00E4", "U+00BA", "U+00BA", "U+00E4", "U+00BA", "U+2039">> >>,
      hr_medium_keywords |-> <<
    <<"U+00E5", "U+2039", "U+00A4", "U+00E6", "U+20AC", "U+00A0">>,
    <<"a", "t", "t", "e", "n", "d", "a", "n", "c", "e">>,
    <<"U+00E7", "U+00A0", "U+201D", "U+00E4", "U+00BF", "U+00AE">>,
    <<"t", "r", "a", "i", "n", "i", "n", "g">>,
    <<"U+00E7", "U+203A", "U+00AE", "U+00E6", "U+00A8", "U+2122", "U+00E9", "U+201D", "U+00E6", "U+02C6">>,
    <<"U+00E8", "U+00B7", "U+00E4", "U+00BD">>,
    <<"U+00E5", "U+2026", "U+00A5", "U+00E7", "U+00A4", "U+00BE">>,
    <<"U+00E5", "U+00B9", "U+00B4", "U+00E9", "U+00BD", "U+00A2">> >>,
      marketing_strong_keywords |-> <<
    <<"U+00E3", "U+201A", "U+00AD", "U+00E3", "U+0192", "U+00A3", "U+00E3", "U+0192", "U+00B3", "U+00E3", "U+0192", "U+0161", "U+00E3", "U+0192", "U+00BC", "U+00E3", "U+0192", "U+00B3">>,
    <<"c", "a", "m", "p", "a", "i", "g", "n">>,
    <<"r", "o", "i">>,
    <<"U+00E3", "U+201A", "U+00A4", "U+00E3", "U+0192", "U+00B3", "U+00E3", "U+0192", "U+2014", "U+00E3", "U+0192", "U+00AC", "U+00E3", "U+0192", "U+0192", "U+00E3", "U+201A", "U+00B7", "U+00E3", "U+0192", "U+00A7", "U+00E3", "U+0192", "U+00B3">>,
    <<"i", "m", "p", "r", "e", "s", "s", "i", "o", "n">>,
    <<"U+00E3", "U+201A", "U+00AF", "U+00E3", "U+0192", "U+00AA", "U+00E3", "U+0192", "U+0192", "U+00E3", "U+201A", "U+00AF">>,
    <<"c", "l", "i", "c", "k">>,
    <<"c", "v", "U+00E6", "U+2022", "U+00B0">>,
    <<"c", "o", "n", "v", "e", "r", "s", "i", "o", "n">>,
    <<"U+00E9", "U+00A1", "U+00A7", "U+00E5", "U+00AE", "U+00A2", "U+00E7", "U+00B2", "U+00E5", "U+00BE", "U+2014">>,
    <<"c", "a", "c">>,
    <<"r", "o", "a", "s">>,
    <<"U+00E5", "U+00BA", "U+0192", "U+00E5", "U+2018", "U+0160">>,
    <<"U+00E5", "U+00AA", "U+2019", "U+00E4", "U+00BD", "U+201C">>,
    <<"U+00E3", "U+201A", "U+00BF", "U+00E3", "U+0192", "U+00BC", "U+00E3", "U+201A", "U+00B2", "U+00E3", "U+0192", "U+0192", "U+00E3", "U+0192", "U+02C6">> >>,
      marketing_medium_keywords |-> <<
    <<"U+00E4", "U+00BA", "U+02C6", "U+00E7", "U+00AE", "U+2014">>,
    <<"b", "u", "d", "g", "e", "t">>,
    <<"U+00E6", "U+201D", "U+00AF", "U+00E5", "U+2021", "U+00BA">>,
    <<"c", "o", "s", "t">>,
    <<"f", "a", "c", "e", "b", "o", "o", "k">>,
    <<"g", "o", "o", "g", "l", "e">>,
    <<"y", "o", "u", "t", "u", "b", "e">>,
    <<"i", "n", "s", "t", "a", "g", "r", "a", "m">>,
    <<"t", "i", "k", "t", "o", "k">>,
    <<"t", "w", "i", "t", "t", "e", "r">> >>,
      sales_strong_keywords |-> <<
    <<"U+00E5", "U+00A3", "U+00B2", "U+00E4", "U+00B8", "U+0160">>,
    <<"s", "a", "l", "e", "s">>,
    <<"r", "e", "v", "e", "n", "u", "e">>,
    <<"U+00E5", "U+2022", "U+2020", "U+00E5", "U+201C">>,
    <<"p", "r", "o", "d", "u", "c", "t">>,
    <<"U+00E9", "U+00A1", "U+00A7", "U+00E5", "U+00AE", "U+00A2">>,
    <<"c", "u", "s", "t", "o", "m", "e", "r">>,
    <<"U+00E9", "U+2021", "U+2018", "U+00E9", "U+00A1">>,
    <<"a", "m", "o", "u", "n", "t">>,
    <<"U+00E5", "U+02DC", "U+00E4", "U+00BE", "U+00A1">>,
    <<"p", "r", "i", "c", "e">>,
    <<"U+00E6", "U+2022", "U+00B0", "U+00E9", "U+2021">>,
    <<"q", "u", "a", "n", "t", "i", "t", "y">> >>,
      sales_medium_keywords |-> <<
    <<"U+00E6", "U+2014", "U+00A5", "U+00E4", "U+00BB", "U+02DC">>,
    <<"d", "a", "t", "e">>,
    <<"U+00E5", "U+00BA", "U+2014", "U+00E8", "U+02C6", "U+2014">>,
    <<"s", "t", "o", "r", "e">>,
    <<"U+00E5", "U+0153", "U+00B0", "U+00E5", "U+0178", "U+0178">>,
    <<"r", "e", "g", "i", "o", "n">>,
    <<"U+00E3", "U+201A", "U+00AB", "U+00E3", "U+0192", "U+2020", "U+00E3", "U+201A", "U+00B4", "U+00E3", "U+0192", "U+00AA">>,
    <<"c", "a", "t", "e", "g", "o", "r", "y">> >>,
      financial_strong_keywords |-> <<
    <<"U+00E5", "U+00A3", "U+00B2", "U+00E4", "U+00B8", "U+0160", "U+00E9", "U+00AB", "U+02DC">>,
    <<"r", "e", "v", "e", "n", "u", "e">>,
    <<"U+00E5", "U+02C6", "U+00A9", "U+00E7", "U+203A", "U+0160">>,
    <<"p", "r", "o", "f", "i", "t">>,
    <<"U+00E8", "U+00B3", "U+2021", "U+00E7", "U+201D", "U+00A3">>,
    <<"a", "s", "s", "e", "t">>,
    <<"U+00E8", "U+00B2", "U+00A0", "U+00E5", "U+201A", "U+00B5">>,
    <<"l", "i", "a", "b", "i", "l", "i", "t", "y">>,
    <<"U+00E3", "U+201A", "U+00AD", "U+00E3", "U+0192", "U+00A3", "U+00E3", "U+0192", "U+0192", "U+00E3", "U+201A", "U+00B7", "U+00E3", "U+0192", "U+00A5">>,
    <<"c", "a", "s", "h">>,
    <<"U+00E6", "U+00E7", "U+203A", "U+0160">>,
    <<"p", "l">>,
    <<"U+00E8", "U+00B2", "U+00B8", "U+00E5", "U+20AC", "U+0178">>,
    <<"b", "s">> >>,
      inventory_strong_keywords |-> <<
    <<"U+00E5", "U+0153", "U+00A8", "U+00E5", "U+00BA", "U+00AB">>,
    <<"i", "n", "v", "e", "n", "t", "o", "r", "y">>,
    <<"s", "t", "o", "c", "k">>,
    <<"U+00E5", "U+0153", "U+00A8", "U+00E5", "U+00BA", "U+00AB", "U+00E6", "U+2022", "U+00B0">>,
    <<"U+00E4", "U+00BF", "U+00E6", "U+0153", "U+2030", "U+00E6", "U+2022", "U+00B0">>,
    <<"U+00E5", "U+20AC", "U+2030", "U+00E5", "U+00BA", "U+00AB">>,
    <<"w", "a", "r", "e", "h", "o", "u", "s", "e">>,
    <<"U+00E5", "U+203A", "U+00E8", "U+00BB", "U+00A2", "U+00E7", "U+2021">>,
    <<"t", "u", "r", "n", "o", "v", "e", "r">>,
    <<"U+00E6", "U+00BB", "U+00E7", "U+2022", "U+2122">>,
    <<"U+00E5", "U+2026", "U+00A5", "U+00E5", "U+00BA", "U+00AB">>,
    <<"U+00E5", "U+2021", "U+00BA", "U+00E5", "U+00BA", "U+00AB">>,
    <<"U+00E8", "U+00AA", "U+00BF", "U+00E9", "U+201D">>,
    <<"p", "r", "o", "c", "u", "r", "e", "m", "e", "n", "t">> >>,
      inventory_medium_keywords |-> <<
    <<"U+00E5", "U+2022", "U+2020", "U+00E5", "U+201C", "U+00E3", "U+201A", "U+00B3", "U+00E3", "U+0192", "U+00BC", "U+00E3", "U+0192", "U+2030">>,
    <<"s", "k", "u">>,
    <<"U+00E3", "U+0192", "U+00AD", "U+00E3", "U+0192", "U+0192", "U+00E3", "U+0192", "U+02C6">>,
    <<"l", "o", "t">>,
    <<"U+00E5", "U+201C", "U+00E7", "U+2022", "U+00AA">>,
    <<"U+00E5", "U+2039", "U+00E7", "U+2022", "U+00AA">>,
    <<"U+00E4", "U+00BB", "U+2022", "U+00E5", "U+2026", "U+00A5">>,
    <<"s", "u", "p", "p", "l", "i", "e", "r">>,
    <<"U+00E7", "U+2122", "U+00BA", "U+00E6", "U+00B3", "U+00A8">>,
    <<"o", "r", "d", "e", "r">>,
    <<"U+00E7", "U+00B4", "U+00E6", "U+0153", "U+0178">>,
    <<"d", "e", "l", "i", "v", "e", "r", "y">> >>,
      customer_strong_keywords |-> <<
    <<"U+00E9", "U+00A1", "U+00A7", "U+00E5", "U+00AE", "U+00A2">>,
    <<"c", "u", "s", "t", "o", "m", "e", "r">>,
    <<"U+00E4", "U+00BC", "U+0161", "U+00E5", "U+201C", "U+00A1">>,
    <<"m", "e", "m", "b", "e", "r">>,
    <<"U+00E3", "U+0192", "U+00A6", "U+00E3", "U+0192", "U+00BC", "U+00E3", "U+201A", "U+00B6", "U+00E3", "U+0192", "U+00BC">>,
    <<"u", "s", "e", "r">>,
    <<"l", "t", "v">>,
    <<"l", "i", "f", "e", "t", "i", "m", "e">>,
    <<"c", "h", "u", "r", "n">>,
    <<"U+00E9", "U+203A", "U+00A2", "U+00E8", "U+201E", "U+00B1">>,
    <<"U+00E7", "U+00B6", "U+2122", "U+00E7", "U+00B6", "U+0161">>,
    <<"r", "e", "t", "e", "n", "t", "i", "o", "n">>,
    <<"U+00E6", "U+00BA", "U+20AC", "U+00E8", "U+00B6", "U+00B3", "U+00E5", "U+00BA", "U+00A6">>,
    <<"s", "a", "t", "i", "s", "f", "a", "c", "t", "i", "o", "n">> >>,
      customer_medium_keywords |-> <<
    <<"U+00E3", "U+201A", "U+00BB", "U+00E3", "U+201A", "U+00B0", "U+00E3", "U+0192", "U+00A1", "U+00E3", "U+0192", "U+00B3", "U+00E3", "U+0192", "U+02C6">>,
    <<"s", "e", "g", "m", "e", "n", "t">>,
    <<"U+00E5", "U+00B9", "U+00B4", "U+00E9", "U+00BD", "U+00A2">>,
    <<"a", "g", "e">>,
    <<"U+00E6", "U+20AC", "U+00A7", "U+00E5", "U+02C6", "U+00A5">>,
    <<"g", "e", "n", "d", "e", "r">>,
    <<"U+00E5", "U+0153", "U+00B0", "U+00E5", "U+0178", "U+0178">>,
    <<"r", "e", "g", "i", "o", "n">>,
    <<"U+00E8", "U+00B3", "U+00BC", "U+00E5", "U+2026", "U+00A5", "U+00E5", "U+00B1", "U+00A5", "U+00E6", "U+00AD", "U+00B4">>,
    <<"p", "u", "r", "c", "h", "a", "s", "e">>,
    <<"U+00E3", "U+201A", "U+00A2", "U+00E3", "U+201A", "U+00AF", "U+00E3", "U+201A", "U+00BB", "U+00E3", "U+201A", "U+00B9">>,
    <<"a", "c", "c", "e", "s", "s">>,
    <<"U+00E3", "U+201A", "U+00AF", "U+00E3", "U+0192", "U+00AA", "U+00E3", "U+0192", "U+0192", "U+00E3", "U+201A", "U+00AF">>,
    <<"c", "l", "i", "c", "k">> >> ]

\* The literals of the sample scoring: the fragments looked for in a value
\* and the keys looked for in a column name.
sample_literals ==
    [ dept_values |-> <<
    <<"U+00E5", "U+2013", "U+00B6", "U+00E6", "U+00A5", "U+00AD", "U+00E9", "U+0192", "U+00A8">>,
    <<"i", "t", "U+00E9", "U+0192", "U+00A8">>,
    <<"U+00E4", "U+00BA", "U+00BA", "U+00E4", "U+00BA", "U+2039", "U+00E9", "U+0192", "U+00A8">>,
    <<"U+00E8", "U+00B2", "U+00A1", "U+00E5", "U+2039", "U+2122", "U+00E9", "U+0192", "U+00A8">>,
    <<"U+00E3", "U+0192", "U+00E3", "U+0192", "U+00BC", "U+00E3", "U+201A", "U+00B1", "U+00E3", "U+0192", "U+2020", "U+00E3", "U+201A", "U+00A3", "U+00E3", "U+0192", "U+00B3", "U+00E3", "U+201A", "U+00B0", "U+00E9", "U+0192", "U+00A8">> >>,
      pos_values |-> <<
    <<"U+00E4", "U+00B8", "U+00BB", "U+00E4", "U+00BB", "U+00BB">>,
    <<"U+00E4", "U+00BF", "U+201A", "U+00E9", "U+2022", "U+00B7">>,
    <<"U+00E4", "U+00B8", "U+20AC", "U+00E8", "U+02C6", "U+00AC">>,
    <<"U+00E9", "U+0192", "U+00A8", "U+00E9", "U+2022", "U+00B7">>,
    <<"U+00E8", "U+00AA", "U+00B2", "U+00E9", "U+2022", "U+00B7">> >>,
      risk_values |-> <<
    <<"U+00E4", "U+00BD">>,
    <<"U+00E4", "U+00B8", "U+00AD">>,
    <<"U+00E9", "U+00AB", "U+02DC">> >>,
      media_values |-> <<
    <<"g", "o", "o", "g", "l", "e", "U+00E5", "U+00BA", "U+0192", "U+00E5", "U+2018", "U+0160">>,
    <<"f", "a", "c", "e", "b", "o", "o", "k", "U+00E5", "U+00BA", "U+0192", "U+00E5", "U+2018", "U+0160">>,
    <<"y", "o", "u", "t", "u", "b", "e", "U+00E5", "U+00BA", "U+0192", "U+00E5", "U+2018", "U+0160">>,
    <<"i", "n", "s", "t", "a", "g", "r", "a", "m", "U+00E5", "U+00BA", "U+0192", "U+00E5", "U+2018", "U+0160">>,
    <<"l", "i", "n", "e", "U+00E5", "U+00BA", "U+0192", "U+00E5", "U+2018", "U+0160">>,
    <<"t", "i", "k", "t", "o", "k", "U+00E5", "U+00BA", "U+0192", "U+00E5", "U+2018", "U+0160">> >>,
      metric_keys |-> <<
    <<"r", "o", "i">>,
    <<"U+00E9", "U+201D", "U+00E6", "U+02C6", "U+00E7", "U+2021">>,
    <<"U+00E6", "U+00BA", "U+20AC", "U+00E8", "U+00B6", "U+00B3", "U+00E5", "U+00BA", "U+00A6">> >>,
      store_keys |-> <<
    <<"U+00E5", "U+00BA", "U+2014", "U+00E8", "U+02C6", "U+2014">>,
    <<"s", "t", "o", "r", "e">> >>,
      unit_values |-> <<
    <<"U+00E5", "U+20AC", "U+2039">>,
    <<"U+00E6", "U+0153", "U+00AC">>,
    <<"k", "g">>,
    <<"U+00E7", "U+00AE", "U+00B1">>,
    <<"U+00E3", "U+201A", "U+00BB", "U+00E3", "U+0192", "U+0192", "U+00E3", "U+0192", "U+02C6">>,
    <<"U+00E5", "U+00B0">> >>,
      status_values |-> <<
    <<"U+00E5", "U+2026", "U+00A5", "U+00E8", "U+00B7", "U+00E5", "U+00BE", "U+2026", "U+00E3", "U+00A1">>,
    <<"U+00E5", "U+2021", "U+00BA", "U+00E8", "U+00B7", "U+00E6", "U+00B8", "U+02C6", "U+00E3", "U+00BF">>,
    <<"U+00E5", "U+0153", "U+00A8", "U+00E5", "U+00BA", "U+00AB", "U+00E5", "U+02C6", "U+2021", "U+00E3", "U+201A", "U+0152">>,
    <<"U+00E8", "U+00AA", "U+00BF", "U+00E9", "U+201D", "U+00E4", "U+00B8", "U+00AD">> >>,
      age_values |-> <<
    <<"2", "0", "U+00E4", "U+00BB", "U+00A3">>,
    <<"3", "0", "U+00E4", "U+00BB", "U+00A3">>,
    <<"4", "0", "U+00E4", "U+00BB", "U+00A3">>,
    <<"5", "0", "U+00E4", "U+00BB", "U+00A3">>,
    <<"6", "0", "U+00E4", "U+00BB", "U+00A3">> >>,
      gender_values |-> <<
    <<"U+00E7", "U+201D", "U+00B7", "U+00E6", "U+20AC", "U+00A7">>,
    <<"U+00E5", "U+00A5", "U+00B3", "U+00E6", "U+20AC", "U+00A7">>,
    <<"m", "a", "l", "e">>,
    <<"f", "e", "m", "a", "l", "e">>,
    <<"U+00E7", "U+201D", "U+00B7">>,
    <<"U+00E5", "U+00A5", "U+00B3">> >> ]

\* The scores after the keyword loops; col_str is the lowercase names, a
\* space, and the names as given.
\* The number of keywords of the list found in col_str: the loop adds the
\* weight once for each list entry that is a substring.
keyword_scores(columns) ==
    LET KeywordHits(keywords, col_str) ==
            Cardinality({i \in 1..Len(keywords) : Contains(col_str, keywords[i])})
    IN  LET col_str == JoinSpace([i \in 1..Len(columns) |-> lower(columns[i])])
                           \o <<" ">> \o JoinSpace(columns)
        IN  [hr_data |->
                 3 * KeywordHits(keyword_lists.hr_strong_keywords, col_str)
               + 2 * KeywordHits(keyword_lists.hr_medium_keywords, col_str),
             marketing_data |->
                 3 * KeywordHits(keyword_lists.marketing_strong_keywords, col_str)
               + 1 * KeywordHits(keyword_lists.marketing_medium_keywords, col_str),
             sales_data |->
                 3 * KeywordHits(keyword_lists.sales_strong_keywords, col_str)
               + 1 * KeywordHits(keyword_lists.sales_medium_keywords, col_str),
             financial_data |->
                 3 * KeywordHits(keyword_lists.financial_strong_keywords, col_str),
             inventory_data |->
                 3 * KeywordHits(keyword_lists.inventory_strong_keywords, col_str)
               + 1 * KeywordHits(keyword_lists.inventory_medium_keywords, col_str),
             customer_data |->
                 3 * KeywordHits(keyword_lists.customer_strong_keywords, col_str)
               + 1 * KeywordHits(keyword_lists.customer_medium_keywords, col_str)]

age_test(str_value) ==
    \/ AnyIn(sample_literals.age_values, str_value)
    \/ /\ isdigit(str_value)
       /\ ~int_raises(str_value)
       /\ 18 <= DecimalValue(str_value)
       /\ DecimalValue(str_value) <= 80

\* What one (key, value) pair of the first sample row adds to the scores.
pair_bonus(key, value) ==
    LET Bonus(cond, n) == IF cond THEN n ELSE 0
    IN  LET str_value == lower(value)
            lkey == lower(key)
        IN  [hr_data |->
                 Bonus(AnyIn(sample_literals.dept_values, str_value), 5)
               + Bonus(AnyIn(sample_literals.pos_values, str_value), 3)
               + Bonus(AnyIn(sample_literals.risk_values, str_value)
                       /\ (Contains(key, <<"U+00E3", "U+0192", "U+00AA", "U+00E3", "U+201A", "U+00B9", "U+00E3", "U+201A", "U+00AF">>) \/ Contains(lkey, <<"r", "i", "s", "k">>)), 4),
             marketing_data |->
                 Bonus(AnyIn(sample_literals.media_values, str_value), 5)
               + Bonus(Contains(str_value, <<"%">>) /\ AnyIn(sample_literals.metric_keys, lkey), 2),
             sales_data |->
                 Bonus(Contains(key, <<"U+00E5", "U+2022", "U+2020", "U+00E5", "U+201C">>) \/ Contains(lkey, <<"p", "r", "o", "d", "u", "c", "t">>), 3)
               + Bonus(InSeq(lkey, sample_literals.store_keys)
                       /\ str_value # <<>>, 4),
             financial_data |-> 0,
             inventory_data |->
                 Bonus(AnyIn(sample_literals.unit_values, str_value), 2)
               + Bonus(Contains(lkey, <<"w", "a", "r", "e", "h", "o", "u", "s", "e">>) \/ Contains(key, <<"U+00E5", "U+20AC", "U+2030", "U+00E5", "U+00BA", "U+00AB">>), 3)
               + Bonus(AnyIn(sample_literals.status_values, str_value), 4),
             customer_data |->
                 Bonus(age_test(str_value), 3)
               + Bonus(AnyIn(sample_literals.gender_values, str_value), 3)
               + Bonus(Contains(str_value, <<"@">>), 4)]

RECURSIVE sample_scores(_)
\* The sum of pair_bonus over the pairs of the first sample row.
sample_scores(cells) ==
    IF cells = <<>> THEN [c \in Categories |-> 0]
    ELSE LET b == pair_bonus(cells[1][1], cells[1][2])
             rest == sample_scores(Tail(cells))
         IN  [c \in Categories |-> b[c] + rest[c]]

\* The exception the sample loop raises, "" when it raises none.
\* The age test of the customer pattern: any(age fragments) or
\* (str_value.isdigit() and 18 <= int(str_value) <= 80); int() is reached
\* only when no fragment matched and isdigit() holds.
sample_raises(sample_data) ==
    LET age_test_raises(str_value) ==
            /\ ~AnyIn(sample_literals.age_values, str_value)
            /\ isdigit(str_value) /\ int_raises(str_value)
    IN  IF sample_data = <<>> THEN ""
        ELSE IF ~sample_data[1].isRecord THEN "AttributeError"
        ELSE IF \E i \in 1..Len(sample_data[1].cells) :
                    age_test_raises(lower(sample_data[1].cells[i][2]))
             THEN "ValueError"
        ELSE ""

\* Scores that spread the keyword score over the columns.
scores_per_column(columns, sample_data) ==
    LET k == keyword_scores(columns)
        s == IF sample_data # <<>> /\ sample_data[1].isRecord
             THEN sample_scores(sample_data[1].cells)
             ELSE [c \in Categories |-> 0]
    IN  [c \in Categories |->
            (IF columns = <<>> THEN 0 ELSE k[c] \div Len(columns)) + s[c]]

\* The scores dict when the function reaches its return statements.
scores(columns, sample_data) ==
    LET k == keyword_scores(columns)
        s == IF sample_data # <<>> /\ sample_data[1].isRecord
             THEN sample_scores(sample_data[1].cells)
             ELSE [c \in Categories |-> 0]
    IN  [c \in Categories |-> k[c] + s[c]]

MaxScore(sc) == CHOOSE m \in {sc[c] : c \in Categories} : \A c \in Categories : sc[c] <= m

\* The last key, in the dict's order, that holds the greatest score.
ArgMax_last(sc) ==
    CategoryOrder[CHOOSE i \in 1..Len(CategoryOrder) :
        /\ \A c \in Categories : sc[c] <= sc[CategoryOrder[i]]
        /\ \A j \in (i + 1)..Len(CategoryOrder) : sc[CategoryOrder[j]] # sc[CategoryOrder[i]]]

\* max(scores, key=scores.get): the first key, in the dict's order, that
\* holds the greatest score.
ArgMax(sc) ==
    CategoryOrder[CHOOSE i \in 1..Len(CategoryOrder) :
        /\ sc[CategoryOrder[i]] = MaxScore(sc)
        /\ \A j \in 1..(i - 1) : sc[CategoryOrder[j]] # MaxScore(sc)]

\* The category when every score is zero, and for no columns.
DefaultCategory == "financial_data"

\* _identify_data_type(columns, sample_data): a category, or the name of
\* the exception it raises.
\* The return statements of _identify_data_type.
identify_data_type(columns, sample_data) ==
    LET best_category(sc) == IF MaxScore(sc) > 0 THEN ArgMax(sc) ELSE DefaultCategory
    IN  IF columns = <<>> THEN DefaultCategory
        ELSE IF sample_raises(sample_data) # "" THEN sample_raises(sample_data)
        ELSE best_category(scores(columns, sample_data))

Exceptions == {"AttributeError", "ValueError", "OverflowError", "TypeError"}

\* ----------------------------------------------- compatibility validator

\* _get_data_type_name: the display name of a data type.
type_names ==
    << <<"pl_statement", <<"U+00E6", "U+00E7", "U+203A", "U+0160", "U+00E8", "U+00A8", "U+02C6", "U+00E7", "U+00AE", "U+2014", "U+00E6", "U+203A", "U+00B8", "U+00EF", "U+00BC", "U+02C6", "P", "L", "U+00E8", "U+00A1", "U+00A8", "U+00EF", "U+00BC", "U+2030">>>>,
       <<"balance_sheet", <<"U+00E8", "U+00B2", "U+00B8", "U+00E5", "U+20AC", "U+0178", "U+00E5", "U+00AF", "U+00BE", "U+00E7", "U+2026", "U+00A7", "U+00E8", "U+00A1", "U+00A8", "U+00EF", "U+00BC", "U+02C6", "B", "S", "U+00EF", "U+00BC", "U+2030">>>>,
       <<"cashflow_statement", <<"U+00E3", "U+201A", "U+00AD", "U+00E3", "U+0192", "U+00A3", "U+00E3", "U+0192", "U+0192", "U+00E3", "U+201A", "U+00B7", "U+00E3", "U+0192", "U+00A5", "U+00E3", "U+0192", "U+2022", "U+00E3", "U+0192", "U+00AD", "U+00E3", "U+0192", "U+00BC", "U+00E8", "U+00A8", "U+02C6", "U+00E7", "U+00AE", "U+2014", "U+00E6", "U+203A", "U+00B8">>>>,
       <<"sales_data", <<"U+00E5", "U+00A3", "U+00B2", "U+00E4", "U+00B8", "U+0160", "U+00E3", "U+0192", "U+2021", "U+00E3", "U+0192", "U+00BC", "U+00E3", "U+201A", "U+00BF">>>>,
       <<"inventory_data", <<"U+00E5", "U+0153", "U+00A8", "U+00E5", "U+00BA", "U+00AB", "U+00E3", "U+0192", "U+2021", "U+00E3", "U+0192", "U+00BC", "U+00E3", "U+201A", "U+00BF">>>>,
       <<"customer_data", <<"U+00E9", "U+00A1", "U+00A7", "U+00E5", "U+00AE", "U+00A2", "U+00E3", "U+0192", "U+2021", "U+00E3", "U+0192", "U+00BC", "U+00E3", "U+201A", "U+00BF">>>>,
       <<"hr_data", <<"U+00E4", "U+00BA", "U+00BA", "U+00E4", "U+00BA", "U+2039", "U+00E3", "U+0192", "U+2021", "U+00E3", "U+0192", "U+00BC", "U+00E3", "U+201A", "U+00BF">>>>,
       <<"marketing_data", <<"U+00E3", "U+0192", "U+00E3", "U+0192", "U+00BC", "U+00E3", "U+201A", "U+00B1", "U+00E3", "U+0192", "U+2020", "U+00E3", "U+201A", "U+00A3", "U+00E3", "U+0192", "U+00B3", "U+00E3", "U+201A", "U+00B0", "U+00E3", "U+0192", "U+2021", "U+00E3", "U+0192", "U+00BC", "U+00E3", "U+201A", "U+00BF">>>>,
       <<"financial_data", <<"U+00E8", "U+00B2", "U+00A1", "U+00E5", "U+2039", "U+2122", "U+00E3", "U+0192", "U+2021", "U+00E3", "U+0192", "U+00BC", "U+00E3", "U+201A", "U+00BF">>>>,
       <<"document_data", <<"U+00E6", "U+203A", "U+00B8", "U+00E9", "U+00A1", "U+00E7", "U+201D", "U+00BB", "U+00E5", "U+0192", "U+00E3", "U+0192", "U+2021", "U+00E3", "U+0192", "U+00BC", "U+00E3", "U+201A", "U+00BF">>>>,
       <<"unknown", <<"U+00E4", "U+00B8", "U+00E6", "U+02DC", "U+00E3", "U+00AA", "U+00E3", "U+0192", "U+2021", "U+00E3", "U+0192", "U+00BC", "U+00E3", "U+201A", "U+00BF">>>> >>

get_data_type_name(data_type) ==
    IF \E i \in 1..Len(type_names) : type_names[i][1] = data_type
    THEN type_names[CHOOSE i \in 1..Len(type_names) : type_names[i][1] = data_type][2]
    ELSE <<"U+00E8", "U+00B2", "U+00A1", "U+00E5", "U+2039", "U+2122", "U+00E3", "U+0192", "U+2021", "U+00E3", "U+0192", "U+00BC", "U+00E3", "U+201A", "U+00BF">>

\* compatibility_matrix, in the order of its keys.
compatibility_matrix ==
    << [intent |-> <<"s", "a", "l", "e", "s">>,
        primary |-> <<"sales_data">>,
        secondary |-> <<"financial_data">>,
        name |-> <<"U+00E5", "U+00A3", "U+00B2", "U+00E4", "U+00B8", "U+0160", "U+00E5", "U+02C6", "U+2020", "U+00E6">>],
       [intent |-> <<"h", "r">>,
        primary |-> <<"hr_data">>,
        secondary |-> <<>>,
        name |-> <<"U+00E4", "U+00BA", "U+00BA", "U+00E4", "U+00BA", "U+2039", "U+00E5", "U+02C6", "U+2020", "U+00E6">>],
       [intent |-> <<"m", "a", "r", "k", "e", "t", "i", "n", "g">>,
        primary |-> <<"marketing_data">>,
        secondary |-> <<"financial_data">>,
        name |-> <<"U+00E3", "U+0192", "U+00E3", "U+0192", "U+00BC", "U+00E3", "U+201A", "U+00B1", "U+00E3", "U+0192", "U+2020", "U+00E3", "U+201A", "U+00A3", "U+00E3", "U+0192", "U+00B3", "U+00E3", "U+201A", "U+00B0", "U+00E5", "U+02C6", "U+2020", "U+00E6">>],
       [intent |-> <<"s", "t", "r", "a", "t", "e", "g", "i", "c">>,
        primary |-> <<"financial_data", "sales_data">>,
        secondary |-> <<"hr_data", "marketing_data">>,
        name |-> <<"U+00E7", "U+00B5", "U+00B1", "U+00E5", "U+02C6", "U+00E6", "U+02C6", "U+00A6", "U+00E7", "U+2022", "U+00A5", "U+00E5", "U+02C6", "U+2020", "U+00E6">>] >>

KnownIntent(requested) ==
    \E i \in 1..Len(compatibility_matrix) : compatibility_matrix[i].intent = requested

ConfigOf(requested) ==
    compatibility_matrix[CHOOSE i \in 1..Len(compatibility_matrix) :
        compatibility_matrix[i].intent = requested]

\* config['primary'] + config['secondary']
all_allowed(config) == config.primary \o config.secondary

\* The name of the first intent of the matrix that allows the detected
\* type, <<>> (None) when no intent does.
best_match(detected_data_type) ==
    IF \E i \in 1..Len(compatibility_matrix) :
           InSeq(detected_data_type, all_allowed(compatibility_matrix[i]))
    THEN compatibility_matrix[
             CHOOSE i \in 1..Len(compatibility_matrix) :
                 /\ InSeq(detected_data_type, all_allowed(compatibility_matrix[i]))
                 /\ \A j \in 1..(i - 1) :
                        ~InSeq(detected_data_type, all_allowed(compatibility_matrix[j]))].name
    ELSE <<>>

\* The text the mismatch branch builds in its local error_msg: the heading,
\* the display name of the detected type, the name of the chosen analysis
\* and the recommendation ("strategic" when no intent allows the type).
error_msg(detected_data_type, config) ==
    <<"DATA_TYPE_MISMATCH_EXPLANATION">>
        \o get_data_type_name(detected_data_type)
        \o config.name
        \o (IF best_match(detected_data_type) # <<>>
            THEN best_match(detected_data_type)
            ELSE compatibility_matrix[4].name)

\* A validator that refuses a mismatch and hands out the text.
mismatch_result_rejecting(detected_data_type, config) ==
    <<FALSE, error_msg(detected_data_type, config)>>

\* The return statements of the mismatch branch: both return (True, "")
\* and drop error_msg.
mismatch_result(detected_data_type, config) ==
    IF best_match(detected_data_type) # <<>>
    THEN <<TRUE, <<>>>>
    ELSE <<TRUE, <<>>>>

\* validate_analysis_compatibility: (is_compatible, error_message)
validate_analysis_compatibility(detected_data_type, requested_analysis_type) ==
    IF ~KnownIntent(requested_analysis_type) THEN <<TRUE, <<>>>>
    ELSE LET config == ConfigOf(requested_analysis_type)
         IN  IF InSeq(detected_data_type, all_allowed(config))
             THEN <<TRUE, <<>>>>
             ELSE mismatch_result(detected_data_type, config)

\* --------------------------------------------------------- numbers

\* A Python float: a finite value, an infinity (v is its sign) or nan.
\* Finite values of the model are integers; the amounts the model reads
\* are written without a fraction or an exponent.
Fin(n) == [kind |-> "fin", v |-> n]
Infinity(sign) == [kind |-> "inf", v |-> sign]
NaN == [kind |-> "nan", v |-> 0]

\* a + b on floats.
float_add(a, b) ==
    IF a.kind = "nan" \/ b.kind = "nan" THEN NaN
    ELSE IF a.kind = "inf" /\ b.kind = "inf"
         THEN (IF a.v = b.v THEN a ELSE NaN)
    ELSE IF a.kind = "inf" THEN a
    ELSE IF b.kind = "inf" THEN b
    ELSE Fin(a.v + b.v)

\* str.replace(old, new): every occurrence, left to right.
RECURSIVE replace(_, _, _)
replace(s, old, new) ==
    IF Len(s) < Len(old) THEN s
    ELSE IF SubSeq(s, 1, Len(old)) = old
         THEN new \o replace(SubSeq(s, Len(old) + 1, Len(s)), old, new)
    ELSE <<s[1]>> \o replace(Tail(s), old, new)

\* float(s) of an unsigned text: digits, or inf / infinity / nan in any
\* case.  ok is FALSE where float() raises ValueError.
float_unsigned(s) ==
    IF s # <<>> /\ (\A i \in 1..Len(s) : IsDecimal(s[i]))
    THEN [ok |-> TRUE, val |-> Fin(DecimalValue(s))]
    ELSE IF lower(s) \in {<<"i", "n", "f">>, <<"i", "n", "f", "i", "n", "i", "t", "y">>}
         THEN [ok |-> TRUE, val |-> Infinity(1)]
    ELSE IF lower(s) = <<"n", "a", "n">> THEN [ok |-> TRUE, val |-> NaN]
    ELSE [ok |-> FALSE, val |-> Fin(0)]

\* float(s): surrounding whitespace and one sign are accepted.
float_parse(s) ==
    LET negate(x) ==
            IF x.kind = "fin" THEN Fin(0 - x.v)
            ELSE IF x.kind = "inf" THEN Infinity(0 - x.v)
            ELSE NaN
    IN  LET t == strip(s)
        IN  IF t # <<>> /\ t[1] = "-"
            THEN LET r == float_unsigned(Tail(t))
                 IN  [ok |-> r.ok, val |-> IF r.ok THEN negate(r.val) ELSE r.val]
            ELSE IF t # <<>> /\ t[1] = "+" THEN float_unsigned(Tail(t))
            ELSE float_unsigned(t)

\* _to_number(x), x by its str() image: the separators and the two
\* currency literals are removed, the rest is stripped and parsed; 0.0
\* where float() raises.
to_number(x) ==
    LET s == strip(replace(replace(replace(x, <<",">>, <<>>), <<"U+00C2", "U+00A5">>, <<>>),
                           <<"U+00E5", "U+2020", "U+2020">>, <<>>))
    IN  IF float_parse(s).ok THEN float_parse(s).val ELSE Fin(0)

\* ------------------------------------------------------ aggregation

\* dict.get(key, default) on a row.
get(row, key, default) ==
    IF \E i \in 1..Len(row.cells) : row.cells[i][1] = key
    THEN row.cells[CHOOSE i \in 1..Len(row.cells) : row.cells[i][1] = key][2]
    ELSE default

\* The test of _detect_columns that binds a column name to a role.
is_role_column(role, name) ==
    IF role = "date"
    THEN Contains(name, <<"U+00E6", "U+2014", "U+00A5">>) \/ Contains(lower(name), <<"d", "a", "t", "e">>)
    ELSE IF role = "sales"
    THEN \/ Contains(name, <<"U+00E5", "U+00A3", "U+00B2">>)
         \/ Contains(name, <<"U+00E9", "U+2021", "U+2018", "U+00E9", "U+00A1">>)
         \/ Contains(lower(name), <<"a", "m", "o", "u", "n", "t">>)
         \/ Contains(lower(name), <<"s", "a", "l", "e", "s">>)
         \/ Contains(lower(name), <<"t", "o", "t", "a", "l">>)
    ELSE \/ Contains(name, <<"U+00E5", "U+2022", "U+2020">>)
         \/ Contains(name, <<"U+00E5", "U+201C">>)
         \/ Contains(lower(name), <<"p", "r", "o", "d", "u", "c", "t">>)
         \/ Contains(lower(name), <<"i", "t", "e", "m">>)
         \/ Contains(lower(name), <<"n", "a", "m", "e">>)

\* The last name of the key list that the role test accepts.
RECURSIVE last_match(_, _)
last_match(names, role) ==
    IF names = <<>> THEN <<>>
    ELSE IF is_role_column(role, names[Len(names)]) THEN names[Len(names)]
    ELSE last_match(SubSeq(names, 1, Len(names) - 1), role)

\* The first name of the key list that the role test accepts, <<>> (the
\* role stays unbound) when none does: colmap.setdefault keeps the first.
RECURSIVE first_match(_, _)
first_match(names, role) ==
    IF names = <<>> THEN <<>>
    ELSE IF is_role_column(role, names[1]) THEN names[1]
    ELSE first_match(Tail(names), role)

\* _detect_columns(rows), rows[0] a record.
detect_columns(rows) ==
    IF rows = <<>> THEN [date |-> <<>>, sales |-> <<>>, product |-> <<>>]
    ELSE [date |-> first_match(keys(rows[1]), "date"),
          sales |-> first_match(keys(rows[1]), "sales"),
          product |-> first_match(keys(rows[1]), "product")]

\* The amount of one row: _to_number(r.get(scol, 0)) if scol else 0.0
row_amount(r, scol) == IF scol # <<>> THEN to_number(get(r, scol, <<"0">>)) ELSE Fin(0)

\* The day key of one row without the cut to 10 characters.
row_day_whole(r, dcol) == replace(strip(get(r, dcol, <<>>)), <<"/">>, <<"-">>)

\* The day key of one row: the date text stripped, '/' replaced by '-',
\* cut to its first 10 characters.
row_day(r, dcol) ==
    LET dt == replace(strip(get(r, dcol, <<>>)), <<"/">>, <<"-">>)
    IN  IF Len(dt) >= 10 THEN SubSeq(dt, 1, 10) ELSE dt

RECURSIVE total_of(_, _)
\* total_sales after the loop.
total_of(rows, scol) ==
    IF rows = <<>> THEN Fin(0)
    ELSE float_add(total_of(SubSeq(rows, 1, Len(rows) - 1), scol),
                   row_amount(rows[Len(rows)], scol))

\* Counter / defaultdict accumulation: the entries in first-insertion
\* order, each <<key, amount>>.
RECURSIVE accumulate(_, _, _)
accumulate(entries, key, v) ==
    IF entries = <<>> THEN << <<key, float_add(Fin(0), v)>> >>
    ELSE IF entries[1][1] = key
         THEN << <<key, float_add(entries[1][2], v)>> >> \o Tail(entries)
    ELSE << entries[1] >> \o accumulate(Tail(entries), key, v)

\* The label of one row.
RECURSIVE by_product_of(_, _, _)
by_product_of(rows, scol, pcol) ==
    LET row_label(r) == strip(get(r, pcol, <<>>))
    IN  IF rows = <<>> \/ pcol = <<>> THEN <<>>
        ELSE accumulate(by_product_of(SubSeq(rows, 1, Len(rows) - 1), scol, pcol),
                        row_label(rows[Len(rows)]),
                        row_amount(rows[Len(rows)], scol))

RECURSIVE ts_of(_, _, _)
ts_of(rows, scol, dcol) ==
    IF rows = <<>> \/ dcol = <<>> THEN <<>>
    ELSE LET before == ts_of(SubSeq(rows, 1, Len(rows) - 1), scol, dcol)
             day == row_day(rows[Len(rows)], dcol)
         IN  IF day # <<>>
             THEN accumulate(before, day, row_amount(rows[Len(rows)], scol))
             ELSE before

\* a <= b on floats; every comparison with nan is false.
float_le(a, b) ==
    IF a.kind = "nan" \/ b.kind = "nan" THEN FALSE
    ELSE IF a.kind = "inf" THEN (a.v < 0 \/ (b.kind = "inf" /\ b.v > 0))
    ELSE IF b.kind = "inf" THEN b.v > 0
    ELSE a.v <= b.v

\* The place of the pivot e among the entries sorted[l+1..r] of a list in
\* rising order, as the binary insertion of list.sort finds it: the pivot
\* goes left of the middle entry when its amount is less.
RECURSIVE bisect(_, _, _, _)
bisect(sorted, e, l, r) ==
    IF l >= r THEN l
    ELSE LET p == l + ((r - l) \div 2)
         IN  IF float_le(e[2], sorted[p + 1][2]) /\ ~float_le(sorted[p + 1][2], e[2])
             THEN bisect(sorted, e, l, p)
             ELSE bisect(sorted, e, p + 1, r)

\* sorted(entries, key=amount, reverse=True), which Counter.most_common
\* comes to (for amounts that are no nan also when it picks fewer entries
\* than there are): list.sort of a short list turns the list round, takes
\* the longest run at its start (rising, or strictly falling and then
\* turned round), puts the other entries in by binary insertion, and turns
\* the list round again.  Entries of equal amount stay in insertion order.
sort_desc(entries) ==
    LET n == Len(entries)
        reversed(s) == [i \in 1..Len(s) |-> s[Len(s) + 1 - i]]
        a == reversed(entries)
        lt(x, y) == float_le(x[2], y[2]) /\ ~float_le(y[2], x[2])
        descending == n >= 2 /\ lt(a[2], a[1])
        in_run[i \in 1..n] ==
            IF i <= 2 THEN TRUE ELSE in_run[i - 1] /\ (lt(a[i], a[i - 1]) <=> descending)
        run == Cardinality({i \in 1..n : in_run[i]})
        done[i \in run..n] ==
            IF i = run
            THEN (IF descending THEN reversed(SubSeq(a, 1, run)) ELSE SubSeq(a, 1, run))
            ELSE LET at == bisect(done[i - 1], a[i], 0, i - 1)
                 IN  SubSeq(done[i - 1], 1, at) \o <<a[i]>> \o SubSeq(done[i - 1], at + 1, i - 1)
    IN  IF n = 0 THEN <<>> ELSE reversed(done[n])

most_common(entries, n) ==
    SubSeq(sort_desc(entries), 1, IF Len(entries) < n THEN Len(entries) ELSE n)

\* s < t on strings, by code points.
\* The printable ASCII characters in code point order ('"' and '\' by
\* their code points); every other character of the model comes after.
RECURSIVE str_lt(_, _)
str_lt(s, t) ==
    LET ord(c) ==
            LET AsciiOrder ==
                    << " ", "!", "U+0022", "#", "$", "%", "&", "'", "(", ")", "*", "+", ",",
       "-", ".", "/", "0", "1", "2", "3", "4", "5", "6", "7", "8", "9", ":",
       ";", "<", "=", ">", "?", "@", "A", "B", "C", "D", "E", "F", "G", "H",
       "I", "J", "K", "L", "M", "N", "O", "P", "Q", "R", "S", "T", "U", "V",
       "W", "X", "Y", "Z", "[", "U+005C", "]", "^", "_", "U+0060", "a", "b", "c",
       "d", "e", "f", "g", "h", "i", "j", "k", "l", "m", "n", "o", "p", "q",
       "r", "s", "t", "u", "v", "w", "x", "y", "z", "{", "|", "}", "~" >>
            IN  IF \E i \in 1..Len(AsciiOrder) : AsciiOrder[i] = c
                THEN CHOOSE i \in 1..Len(AsciiOrder) : AsciiOrder[i] = c
                ELSE Len(AsciiOrder) + 1
    IN  IF t = <<>> THEN FALSE
        ELSE IF s = <<>> THEN TRUE
        ELSE IF s[1] = t[1] THEN str_lt(Tail(s), Tail(t))
        ELSE ord(s[1]) < ord(t[1])

\* sorted(ts.items()): ascending by the day string (the keys are distinct).
RECURSIVE sort_asc(_)
sort_asc(entries) ==
    LET RECURSIVE insert_asc(_, _)
        insert_asc(sorted, e) ==
            IF sorted = <<>> THEN <<e>>
            ELSE IF str_lt(e[1], sorted[1][1]) THEN <<e>> \o sorted
            ELSE <<sorted[1]>> \o insert_asc(Tail(sorted), e)
    IN  IF entries = <<>> THEN <<>>
        ELSE insert_asc(sort_asc(Tail(entries)), entries[1])

\* The number of entries most_common is asked for.
TopN == 5

\* A quotient of a float by a positive count, kept as the pair.
Quotient(x, n) == [num |-> x, den |-> n]

\* The rows whose .get() the loop calls are records; rows[0].keys() is
\* called first.  The loop calls r.get only for a bound role.
compute_stats_raises(rows) ==
    /\ rows # <<>>
    /\ \/ ~rows[1].isRecord
       \/ /\ \E i \in 2..Len(rows) : ~rows[i].isRecord
          /\ LET colmap == detect_columns(rows)
             IN  colmap.date # <<>> \/ colmap.sales # <<>> \/ colmap.product # <<>>

\* _compute_stats without its guards for the empty list: the average is
\* divided by the row count whatever it is.
compute_stats_unguarded(rows) ==
    LET colmap == detect_columns(rows)
        total == Len(rows)
        total_sales == total_of(rows, colmap.sales)
    IN  [total_rows |-> total,
         total_sales |-> total_sales,
         avg_row_sales |-> Quotient(total_sales, total),
         top_products |-> most_common(by_product_of(rows, colmap.sales, colmap.product), TopN),
         timeseries |-> sort_asc(ts_of(rows, colmap.sales, colmap.date))]

\* _compute_stats(rows), where it returns.
compute_stats(rows) ==
    IF rows = <<>>
    THEN [total_rows |-> 0, total_sales |-> Fin(0), avg_row_sales |-> Quotient(Fin(0), 1),
          top_products |-> <<>>, timeseries |-> <<>>]
    ELSE LET colmap == detect_columns(rows)
             total == Len(rows)
             total_sales == total_of(rows, colmap.sales)
         IN  [total_rows |-> total,
              total_sales |-> total_sales,
              avg_row_sales |-> Quotient(total_sales, total),
              top_products |-> most_common(by_product_of(rows, colmap.sales, colmap.product), TopN),
              timeseries |-> sort_asc(ts_of(rows, colmap.sales, colmap.date))]

\* ------------------------------------------------------------ csv text

\* str.split(sep) for a one-character separator: the pieces, empty ones
\* included.
RECURSIVE split(_, _)
split(s, sep) ==
    IF ~\E i \in 1..Len(s) : s[i] = sep THEN <<s>>
    ELSE LET i == CHOOSE k \in 1..Len(s) :
                     s[k] = sep /\ \A j \in 1..(k - 1) : s[j] # sep
         IN  <<SubSeq(s, 1, i - 1)>> \o split(SubSeq(s, i + 1, Len(s)), sep)

\* str.splitlines(): the lines between line feeds and carriage returns (a
\* carriage return and line feed pair is one boundary); no empty last
\* line after a final boundary.
RECURSIVE splitlines(_)
splitlines(s) ==
    IF s = <<>> THEN <<>>
    ELSE IF ~\E i \in 1..Len(s) : s[i] \in {"U+000A", "U+000D"} THEN <<s>>
    ELSE LET i == CHOOSE k \in 1..Len(s) :
                     /\ s[k] \in {"U+000A", "U+000D"}
                     /\ \A j \in 1..(k - 1) : s[j] \notin {"U+000A", "U+000D"}
             skip == IF s[i] = "U+000D" /\ i < Len(s) /\ s[i + 1] = "U+000A"
                     THEN 2 ELSE 1
         IN  <<SubSeq(s, 1, i - 1)>> \o splitlines(SubSeq(s, i + skip, Len(s)))

\* row[h] = v on a dict kept as its pairs in insertion order.
RECURSIVE dict_set(_, _, _)
dict_set(cells, key, value) ==
    IF cells = <<>> THEN << <<key, value>> >>
    ELSE IF cells[1][1] = key THEN << <<key, value>> >> \o Tail(cells)
    ELSE <<cells[1]>> \o dict_set(Tail(cells), key, value)

\* The row of one line without the padding: a header beyond the cells of
\* the line gets no key.
RECURSIVE csv_row_unpadded(_, _, _)
csv_row_unpadded(headers, cells, n) ==
    IF n = 0 THEN <<>>
    ELSE IF n <= Len(cells)
         THEN dict_set(csv_row_unpadded(headers, cells, n - 1), headers[n], strip(cells[n]))
    ELSE csv_row_unpadded(headers, cells, n - 1)

\* The row of one line: cell i under header i, "" where the line is short.
RECURSIVE csv_row(_, _, _)
csv_row(headers, cells, n) ==
    IF n = 0 THEN <<>>
    ELSE dict_set(csv_row(headers, cells, n - 1), headers[n],
                  IF n <= Len(cells) THEN strip(cells[n]) ELSE <<>>)

\* _parse_csv_simple(csv_text)
parse_csv_simple(csv_text) ==
    LET all == splitlines(csv_text)
        lines == SelectSeq(all, LAMBDA l : strip(l) # <<>>)
    IN  IF lines = <<>> THEN <<>>
        ELSE LET raw == split(lines[1], ",")
                 headers == [i \in 1..Len(raw) |-> strip(raw[i])]
             IN  [k \in 1..(Len(lines) - 1) |->
                     Record(csv_row(headers, split(lines[k + 1], ","), Len(headers)))]

\* ------------------------------------------------------------ requests

\* A text is a sequence of characters; an element of a text may also be a
\* token ("<...>") that stands for a run of characters the program does
\* not look into.

\* A value of the request body, as the handler tells values apart: a key
\* the object does not hold, null, a string, a non-zero number, a list.
Absent == [t |-> "absent", v |-> <<>>]
Null == [t |-> "null", v |-> <<>>]
Str(s) == [t |-> "str", v |-> s]
List(items) == [t |-> "list", v |-> <<>>, items |-> items]

\* bool(x)
truthy(x) ==
    \/ x.t = "number"
    \/ x.t = "str" /\ x.v # <<>>
    \/ x.t = "list" /\ x.items # <<>>

\* a or b
or_(a, b) == IF truthy(a) THEN a ELSE b

\* The body text as a JSON document: one json.loads rejects, one that is
\* not an object, or an object by the keys the handler reads.
Unparseable == [parses |-> FALSE, isObject |-> FALSE, fields |-> <<>>]
NonObject == [parses |-> TRUE, isObject |-> FALSE, fields |-> <<>>]
Object(fields) == [parses |-> TRUE, isObject |-> TRUE, fields |-> fields]

EmptyObject ==
    Object([instruction |-> Absent, prompt |-> Absent, responseFormat |-> Absent,
            analysisType |-> Absent, fileType |-> Absent, imageData |-> Absent,
            image_data |-> Absent,
            salesData |-> Absent, csv |-> Absent, rows |-> Absent, data |-> Absent])

\* event["body"]: no body, the empty string, or a text in plain or base64
\* form.
NoBody == [text |-> "none", wire |-> "plain", doc |-> Unparseable]
EmptyBody == [text |-> "empty", wire |-> "plain", doc |-> Unparseable]
Body(wire, doc) == [text |-> "text", wire |-> wire, doc |-> doc]

\* response_json(status, body)
\* The response headers of response_json.
response_json(status, body) ==
    LET response_json_headers ==
            { <<"Content-Type", "application/json; charset=utf-8">>,
              <<"Access-Control-Allow-Origin", "*">>,
              <<"Access-Control-Allow-Headers", "Content-Type, Authorization, X-Requested-With">>,
              <<"Access-Control-Allow-Methods", "OPTIONS,POST">> }
    IN  [statusCode |-> status, headers |-> response_json_headers, body |-> body]

\* No response: the invocation is running, or ended in an exception.
NoResponse == [statusCode |-> 0, headers |-> {}, body |-> [message |-> ""]]

\* _early_echo(event): the debug response, or NoResponse for None.
early_echo(ev, environ) ==
    LET qs == lower(ev.rawQueryString)
        env_on == environ.LAMBDA_DEBUG_ECHO \in {"1", "true", "TRUE"}
    IN  IF ~(env_on \/ Contains(qs, <<"e", "c", "h", "o", "=", "1">>)) THEN NoResponse
        ELSE response_json(200,
                 [message |-> "DEBUG", format |-> "json",
                  response |-> [echo |-> "early",
                                received_type |-> IF ev.body.text = "none"
                                                  THEN "None" ELSE "str"]])

\* The method the handler dispatches on: the one of requestContext.http,
\* else httpMethod, else "".
method_of(ev) == IF ev.rcMethod # "" THEN ev.rcMethod ELSE ev.httpMethod

\* raw = event.get("body") or "{}"
raw_of(ev) ==
    IF ev.body.text \in {"none", "empty"} THEN Body("plain", EmptyObject) ELSE ev.body

\* base64.b64decode(raw).decode(...), kept or passed over: a base64 text
\* gives the text it encodes; a plain text is either refused (raw stays
\* as it is) or decoded to bytes that are no JSON text, which of the two
\* depends on how many characters of the base64 alphabet it holds; "{}"
\* holds none and decodes to the empty text.
b64decoded(raw, isDefault) ==
    IF raw.wire = "base64" THEN {Body("plain", raw.doc)}
    ELSE IF isDefault THEN {Body("plain", Unparseable)}
    ELSE {raw, Body("plain", Unparseable)}

\* json.loads(raw): base64 text is no JSON text.
json_loads_body(raw) == IF raw.wire = "base64" THEN Unparseable ELSE raw.doc

\* --------------------------------------------------------- model reply

\* The JSON documents a reply can hold, each one token of the text, and
\* the value json.loads gives for it.
ReplyDocs ==
    [d \in {"<object: overview findings kpis trend>", "<object: overview>",
            "<object: findings>", "<array>"} |->
        IF d = "<object: overview findings kpis trend>"
        THEN [isObject |-> TRUE,
              cells |-> << <<"overview", <<"<model overview>">> >>,
                           <<"findings", <<"<model findings>">> >>,
                           <<"kpis", [total_sales |-> Fin(999), top_products |-> <<>>]>>,
                           <<"trend", << <<<<"2", "0", "3", "0", "-", "0", "1", "-", "0", "1">>, Fin(999)>> >> >> >>]
        ELSE IF d = "<object: overview>"
        THEN [isObject |-> TRUE, cells |-> << <<"overview", <<"<model overview>">> >> >>]
        ELSE IF d = "<object: findings>"
        THEN [isObject |-> TRUE, cells |-> << <<"findings", <<"<model findings>">> >> >>]
        ELSE [isObject |-> FALSE, cells |-> <<>>]]

\* str.strip(chars) and str.lstrip(chars) for a set of characters.
RECURSIVE lstrip_chars(_, _)
lstrip_chars(s, chars) ==
    IF s # <<>> /\ s[1] \in chars THEN lstrip_chars(Tail(s), chars) ELSE s

RECURSIVE rstrip_chars(_, _)
rstrip_chars(s, chars) ==
    IF s # <<>> /\ s[Len(s)] \in chars
    THEN rstrip_chars(SubSeq(s, 1, Len(s) - 1), chars) ELSE s

strip_chars(s, chars) == rstrip_chars(lstrip_chars(s, chars), chars)

\* text.startswith(prefix)
startswith(s, prefix) == Len(s) >= Len(prefix) /\ SubSeq(s, 1, Len(prefix)) = prefix

\* json.loads(text) of a reply: the text is one document, whitespace
\* around it allowed.
json_loads(text) ==
    LET t == strip(text)
    IN  IF Len(t) = 1 /\ t[1] \in DOMAIN ReplyDocs
        THEN [ok |-> TRUE, isObject |-> ReplyDocs[t[1]].isObject, cells |-> ReplyDocs[t[1]].cells]
        ELSE [ok |-> FALSE, isObject |-> FALSE, cells |-> <<>>]

\* ai_json of the json branch: the reply without its fence parsed, else
\* the part from the first "{" to the last "}" parsed, else the reply
\* wrapped as overview.  start and end are text.find("{") and
\* text.rfind("}") as positions of elements, 0 for -1.
ai_json_of(ai_text) ==
    LET IsObjectDoc(c) == c \in DOMAIN ReplyDocs /\ ReplyDocs[c].isObject
    IN  LET stripped == strip(ai_text)
            text == IF startswith(stripped, <<"U+0060", "U+0060", "U+0060">>)
                    THEN strip(lstrip_chars(strip_chars(stripped, {"U+0060"}),
                                            {"j", "s", "o", "n"}))
                    ELSE stripped
            wrapped == [ok |-> TRUE, isObject |-> TRUE,
                        cells |-> << <<"overview", ai_text>> >>]
            opens(i) == text[i] = "{" \/ IsObjectDoc(text[i])
            closes(i) == text[i] = "}" \/ IsObjectDoc(text[i])
            start == IF \E i \in 1..Len(text) : opens(i)
                     THEN CHOOSE i \in 1..Len(text) :
                              opens(i) /\ \A j \in 1..(i - 1) : ~opens(j)
                     ELSE 0
            end == IF \E i \in 1..Len(text) : closes(i)
                   THEN CHOOSE i \in 1..Len(text) :
                            closes(i) /\ \A j \in (i + 1)..Len(text) : ~closes(j)
                   ELSE 0
        IN  IF json_loads(text).ok THEN json_loads(text)
            ELSE IF start # 0 /\ end # 0
                    /\ (end > start \/ (end = start /\ IsObjectDoc(text[start])))
                 THEN (IF json_loads(SubSeq(text, start, end)).ok
                       THEN json_loads(SubSeq(text, start, end)) ELSE wrapped)
            ELSE wrapped

\* f"(Bedrock error: {str(e)})"
bedrock_error(e) == <<"(Bedrock error: ">> \o e \o <<")">>

\* The four values after the try statement with the defaults of the reply
\* put to empty values.
shaped_without_defaults(fmt, outcome, kpis, trend) ==
    IF outcome.raised
    THEN [summary_ai |-> bedrock_error(outcome.text), findings |-> <<>>,
          kpis |-> kpis, trend |-> trend]
    ELSE IF fmt = <<"j", "s", "o", "n">>
    THEN LET ai_json == ai_json_of(outcome.text)
         IN  IF ~ai_json.isObject
             THEN [summary_ai |-> bedrock_error(<<"<no attribute 'get'>">>),
                   findings |-> <<>>, kpis |-> kpis, trend |-> trend]
             ELSE [summary_ai |-> get(ai_json, "overview", <<>>),
                   findings |-> get(ai_json, "findings", <<>>),
                   kpis |-> get(ai_json, "kpis", [total_sales |-> Fin(0), top_products |-> <<>>]),
                   trend |-> get(ai_json, "trend", <<>>)]
    ELSE [summary_ai |-> outcome.text, findings |-> <<>>, kpis |-> kpis, trend |-> trend]

\* The four values after the try statement: from the reply, or the error
\* text with the defaults when the call or ai_json.get raised.
shaped(fmt, outcome, kpis, trend) ==
    IF outcome.raised
    THEN [summary_ai |-> bedrock_error(outcome.text), findings |-> <<>>,
          kpis |-> kpis, trend |-> trend]
    ELSE IF fmt = <<"j", "s", "o", "n">>
    THEN LET ai_json == ai_json_of(outcome.text)
         IN  IF ~ai_json.isObject
             THEN [summary_ai |-> bedrock_error(<<"<no attribute 'get'>">>),
                   findings |-> <<>>, kpis |-> kpis, trend |-> trend]
             ELSE [summary_ai |-> get(ai_json, "overview", <<>>),
                   findings |-> get(ai_json, "findings", <<>>),
                   kpis |-> get(ai_json, "kpis", kpis),
                   trend |-> get(ai_json, "trend", trend)]
    ELSE [summary_ai |-> outcome.text, findings |-> <<>>, kpis |-> kpis, trend |-> trend]

\* -------------------------------------------------------- presentation

int_of(x) ==
    LET n == IF "num" \in DOMAIN x THEN x.num.v ELSE x.v
        d == IF "den" \in DOMAIN x THEN x.den ELSE 1
    IN  IF n >= 0 THEN n \div d ELSE 0 - ((0 - n) \div d)

\* stats.get('timeseries', [])[:3]
trend_list_of(stats) == SubSeq(stats.timeseries, 1, IF Len(stats.timeseries) < 3
                                                    THEN Len(stats.timeseries) ELSE 3)

\* bool(x) of a float
float_truthy(x) == ~(x.kind = "fin" /\ x.v = 0)

\* The entries of trend_list the loop formats: a day and a non-zero
\* amount.
RECURSIVE trend_parts(_)
trend_parts(trend_list) ==
    IF trend_list = <<>> THEN <<>>
    ELSE (IF trend_list[1][1] # <<>> /\ float_truthy(trend_list[1][2])
          THEN << <<trend_list[1][1], int_of(trend_list[1][2])>> >> ELSE <<>>)
         \o trend_parts(Tail(trend_list))

\* The exception raised while presentation_md is built, "" for none: the
\* first int() of the trend loop that raises, else int(total_sales).
\* int(x) of a float or of an average: the exception it raises ("" for
\* none) and the value, truncated toward zero.
presentation_raises(stats) ==
    LET int_of_raises(x) ==
            LET f == IF "num" \in DOMAIN x THEN x.num ELSE x
            IN  IF f.kind = "inf" THEN "OverflowError"
                ELSE IF f.kind = "nan" THEN "ValueError" ELSE ""
    IN  LET tl == trend_list_of(stats)
            bad == {i \in 1..Len(tl) : tl[i][1] # <<>> /\ float_truthy(tl[i][2])
                                       /\ int_of_raises(tl[i][2]) # ""}
        IN  IF bad # {}
            THEN int_of_raises(tl[CHOOSE i \in bad : \A j \in bad : i <= j][2])
            ELSE int_of_raises(stats.total_sales)

\* presentation_md by the values it holds: the row count, the total, the
\* average and the trend text (the formatted entries, "no data" when the
\* loop formatted none, empty without a time series).
presentation_md_of(total, stats) ==
    [total |-> total,
     total_sales |-> int_of(stats.total_sales),
     avg_sales |-> int_of(stats.avg_row_sales),
     trend_text |-> IF trend_list_of(stats) = <<>> THEN <<>>
                    ELSE IF trend_parts(trend_list_of(stats)) = <<>> THEN <<"<no data>">>
                    ELSE trend_parts(trend_list_of(stats))]

\* The body of the final response in the shape of the json format for
\* every format.
final_body_one_shape(fmt, total, stats, sh) ==
    [message |-> "OK", format |-> fmt,
     response |-> [summary_ai |-> sh.summary_ai,
                   presentation_md |-> presentation_md_of(total, stats),
                   key_insights |-> sh.findings,
                   data_analysis |-> [total_records |-> total,
                                      kpis |-> sh.kpis, trend |-> sh.trend]]]

\* The body of the final response.
final_body(fmt, total, stats, sh) ==
    IF fmt = <<"m", "a", "r", "k", "d", "o", "w", "n">> \/ fmt = <<"t", "e", "x", "t">>
    THEN [message |-> "OK", format |-> fmt, response |-> [summary_ai |-> sh.summary_ai]]
    ELSE [message |-> "OK", format |-> fmt,
          response |-> [summary_ai |-> sh.summary_ai,
                        presentation_md |-> presentation_md_of(total, stats),
                        key_insights |-> sh.findings,
                        data_analysis |-> [total_records |-> total,
                                           kpis |-> sh.kpis, trend |-> sh.trend]]]

\* ------------------------------------------------------------- inputs

\* The rows the handler reads: salesData if a list, else csv if a string,
\* else rows if a list, else data if a list, else none.
sales_of(fields) ==
    IF fields.salesData.t = "list" THEN fields.salesData.items
    ELSE IF fields.csv.t = "str" THEN parse_csv_simple(fields.csv.v)
    ELSE IF fields.rows.t = "list" THEN fields.rows.items
    ELSE IF fields.data.t = "list" THEN fields.data.items
    ELSE <<>>

\* type_mapping.get(requested_analysis_type, detected_data_type)
type_mapping(requested_analysis_type, detected_data_type) ==
    IF requested_analysis_type = <<"s", "a", "l", "e", "s">> THEN "sales_data"
    ELSE IF requested_analysis_type = <<"h", "r">> THEN "hr_data"
    ELSE IF requested_analysis_type = <<"m", "a", "r", "k", "e", "t", "i", "n", "g">> THEN "marketing_data"
    ELSE detected_data_type

\* _get_analysis_instructions(data_type), by the key of the text returned.
get_analysis_instructions(data_type) ==
    IF data_type \in {"pl_statement", "balance_sheet", "cashflow_statement", "sales_data",
                      "inventory_data", "hr_data", "marketing_data", "customer_data",
                      "financial_data"}
    THEN data_type ELSE "financial_data"

\* The prompt by what selects its text: the builder, and for the json
\* builder the instructions and the type name; the other two builders do
\* not read data_type.
build_prompt(fmt, stats, data_type) ==
    IF fmt = <<"m", "a", "r", "k", "d", "o", "w", "n">> THEN [builder |-> "markdown", instructions |-> "", type_name |-> <<>>, stats |-> stats]
    ELSE IF fmt = <<"t", "e", "x", "t">> THEN [builder |-> "text", instructions |-> "", type_name |-> <<>>, stats |-> stats]
    ELSE [builder |-> "json", instructions |-> get_analysis_instructions(data_type),
          type_name |-> get_data_type_name(data_type), stats |-> stats]

\* ------------------------------------------------------------ fixtures

\* The longest row list a request of the model carries.
MaxRows == 2

\* The rows requests are built from.
RowVocabulary ==
    { Record(<< <<<<"d", "a", "t", "e">>, <<"2", "0", "2", "4", "-", "0", "1", "-", "0", "1">>>>, <<<<"p", "r", "o", "d", "u", "c", "t">>, <<"X">>>>, <<<<"s", "a", "l", "e", "s">>, <<"1", ",", "0", "0", "0", "U+5186">>>> >>),
      Record(<< <<<<"d", "a", "t", "e">>, <<"2", "0", "2", "4", "-", "0", "1", "-", "0", "1">>>>, <<<<"p", "r", "o", "d", "u", "c", "t">>, <<"Y">>>>, <<<<"s", "a", "l", "e", "s">>, <<"5", "0", "0">>>> >>),
      Record(<< <<<<"e", "m", "p", "l", "o", "y", "e", "e">>, <<"E", "1">>>>, <<<<"s", "a", "l", "a", "r", "y">>, <<"3", "0", "0">>>> >>),
      Record(<< <<<<"c", "a", "m", "p", "a", "i", "g", "n">>, <<"c">>>>, <<<<"c", "l", "i", "c", "k">>, <<"1", "0">>>> >>),
      Record(<< <<<<"s", "t", "o", "c", "k">>, <<"3">>>>, <<<<"w", "a", "r", "e", "h", "o", "u", "s", "e">>, <<"W">>>> >>),
      Record(<< <<<<"m", "e", "m", "b", "e", "r">>, <<"m">>>>, <<<<"m", "a", "i", "l">>, <<"a", "@", "b">>>> >>),
      Record(<< <<<<"s", "a", "l", "e", "s">>, <<"i", "n", "f">>>>, <<<<"d", "a", "t", "e">>, <<"2", "0", "2", "4", "/", "0", "1", "/", "0", "2">>>> >>),
      Record(<< <<<<"r", "a", "n", "k">>, <<"U+00B2">>>> >>),
      Record(<< <<<<"m", "e", "m", "o">>, <<"-">>>> >>),
      Record(<<>>),
      NonRecord }

RECURSIVE SeqsUpTo(_, _)
SeqsUpTo(S, n) ==
    IF n = 0 THEN {<<>>}
    ELSE SeqsUpTo(S, n - 1) \cup
         {Append(s, x) : s \in {t \in SeqsUpTo(S, n - 1) : Len(t) = n - 1}, x \in S}

RowLists == SeqsUpTo(RowVocabulary, MaxRows)

\* The object bodies: the fields of EmptyObject with some replaced.
With(fields) == Object([k \in DOMAIN EmptyObject.fields |->
                           IF k \in DOMAIN fields THEN fields[k] ELSE EmptyObject.fields[k]])

\* Objects that differ in the input fields, with no rows or the two rows
\* of one day.
FieldObjects ==
    LET Num == [t |-> "number", v |-> <<>>]
    IN  { With([instruction |-> i, responseFormat |-> f, analysisType |-> a,
                fileType |-> ft, imageData |-> im, salesData |-> sd]) :
            i \in {Absent, Str(<<" ", "r", "e", "p", "o", "r", "t", " ">>), Num},
            f \in {Absent, Str(<<"j", "s", "o", "n">>), Str(<<"M", "a", "r", "k", "d", "o", "w", "n">>), Str(<<"t", "e", "x", "t">>), Num},
            a \in {Absent, Null, Num, Str(<<"s", "a", "l", "e", "s">>), Str(<<" ", "h", "r", " ">>), Str(<<"m", "a", "r", "k", "e", "t", "i", "n", "g">>),
                   Str(<<"s", "t", "r", "a", "t", "e", "g", "i", "c">>), Str(<<"d", "o", "c", "u", "m", "e", "n", "t">>), Str(<<"o", "t", "h", "e", "r">>)},
            ft \in {Absent, Str(<<"i", "m", "a", "g", "e">>)},
            im \in {Absent, Str(<<>>), Str(<<"<base64 image>">>)},
            sd \in {Absent} }

\* Objects that differ in where the rows are and in the rows.
TabularObjects ==
    { With([responseFormat |-> f, analysisType |-> a, salesData |-> List(rows)]) :
        f \in {Absent, Str(<<"m", "a", "r", "k", "d", "o", "w", "n">>)},
        a \in {Absent, Str(<<"h", "r">>), Str(<<"s", "t", "r", "a", "t", "e", "g", "i", "c">>)},
        rows \in RowLists }
    \cup { With([csv |-> Str(t), salesData |-> sd]) :
               t \in { <<"d", "a", "t", "e", ",", "p", "r", "o", "d", "u", "c", "t", ",", "s", "a", "l", "e", "s", "U+000A", "2", "0", "2", "4", "-", "0", "1", "-", "0", "1", ",", "X", ",", "5", "0", "0", "U+000A", "2", "0", "2", "4", "-", "0", "1", "-", "0", "2", ",", "Y", "U+000A">>,
                       <<"s", "a", "l", "a", "r", "y", "U+000A">> },
               sd \in {Absent, Str(<<"x">>)} }
    \cup { With([rows |-> List(rows)]) : rows \in {r \in RowLists : Len(r) = 1} }
    \cup { With([data |-> List(rows), analysisType |-> Str(<<"s", "a", "l", "e", "s">>)]) :
               rows \in {r \in RowLists : Len(r) = 1} }

Methods == {"", "POST", "OPTIONS", "GET", "post"}

Event(qs, rc, http, b64, body) ==
    [rawQueryString |-> qs, rcMethod |-> rc, httpMethod |-> http,
     isBase64Encoded |-> b64, body |-> body]

\* The requests of the model: every method and query string on three
\* bodies; every form of the body under POST; the objects above under
\* POST.
Events ==
    { Event(qs, rc, http, FALSE, b) :
        qs \in {<<>>, <<"e", "c", "h", "o", "=", "1">>, <<"a", "=", "1", "&", "E", "C", "H", "O", "=", "1">>, <<"e", "c", "h", "o", "=", "0">>},
        rc \in Methods, http \in Methods,
        b \in {NoBody, Body("plain", Unparseable), Body("plain", EmptyObject)} }
    \cup { Event(<<>>, "", "POST", b64, b) :
             b64 \in BOOLEAN,
             b \in {NoBody, EmptyBody}
                   \cup {Body(w, d) : w \in {"plain", "base64"},
                                      d \in {Unparseable, NonObject, EmptyObject}} }
    \cup { Event(<<>>, "", "POST", FALSE, Body("plain", o)) :
             o \in FieldObjects \cup TabularObjects }

\* The texts _bedrock_converse returns (stripped), and the texts of the
\* exceptions it raises.
Replies ==
    { <<"<object: overview findings kpis trend>">>,
      <<"U+0060", "U+0060", "U+0060", "j", "s", "o", "n", "U+000A",
        "<object: overview>", "U+000A", "U+0060", "U+0060", "U+0060">>,
      <<"n", "o", "t", "e", ":", " ", "<object: findings>", " ", "o", "k">>,
      <<"<array>">>,
      <<"{", "x", "}">>,
      <<"s", "o", "r", "r", "y">>,
      <<>> }

ErrorTexts == {<<"<timeout>">>, <<>>}

\* ------------------------------------------------------- state machine

VARIABLES
    environ,                  \* os.environ, fixed for the deployment
    handler,                  \* the handler invoked, "" when none is running
    pc,                       \* the position of the invocation in the handler
    event,                    \* the event of the invocation
    data,                     \* the parsed body
    fmt,                      \* the response format
    requested_analysis_type,
    sales,                    \* the rows
    columns,
    detected_data_type,
    is_compatible,
    error_message,
    data_type,
    stats,
    prompt,
    outcome,                  \* what the model call did
    body,                     \* the body of the final response
    response,                 \* what the handler returned
    raised,                   \* the exception that left the handler, "" for none
    stages,                   \* the stages the invocation went through
    modelCalls,               \* the calls of _bedrock_converse of the invocation
    format_profiles,          \* the table format_profiles, in the order of the ids
    column_mappings,          \* the table column_mappings, a bag of rows
    profile_meta,             \* the table profile_meta, by profile_id
    saves                     \* the running calls of save_format_profile

inputs == <<data, fmt, requested_analysis_type>>
classified == <<sales, columns, detected_data_type>>
compatibility == <<is_compatible, error_message, data_type>>
analysis == <<stats, prompt, outcome, body>>
locals == <<inputs, classified, compatibility, analysis>>

store == <<format_profiles, column_mappings, profile_meta, saves>>

vars == <<environ, handler, pc, event, locals, response, raised, stages, modelCalls, store>>

\* The invocations of the format-learning handler that run at once, and
\* the calls of save_format_profile they make together.
MaxSavers == 2
MaxSaves == 3

Savers == 1..MaxSavers

\* No save is running, on empty tables.
StoreIdle ==
    /\ format_profiles = <<>>
    /\ column_mappings = EmptyBag
    /\ profile_meta = <<>>
    /\ saves = [s \in Savers |->
                   [pc |-> "idle", calls |-> 0, tenant_id |-> <<>>, format_signature |-> [md5 |-> <<>>],
                    mappings |-> <<>>, todo |-> <<>>, profile_id |-> 0, saved_count |-> 0,
                    returns |-> FALSE]]

NoOutcome == [raised |-> FALSE, text |-> <<>>]
NoPrompt == [builder |-> "", instructions |-> "", type_name |-> <<>>, stats |-> compute_stats(<<>>)]
NoEvent == Event(<<>>, "", "", FALSE, NoBody)
NoBodyYet == [message |-> ""]

\* The environment variables the handler reads.
Init ==
    LET Environments ==
            [LAMBDA_DEBUG_ECHO : {"", "1"}, DEFAULT_FORMAT : {<<>>, <<"T", "e", "x", "t">>}]
    IN  /\ StoreIdle
        /\ environ \in Environments
        /\ handler = ""
        /\ pc = "idle"
        /\ event = NoEvent
        /\ data = Unparseable
        /\ fmt = <<>>
        /\ requested_analysis_type = <<>>
        /\ sales = <<>>
        /\ columns = <<>>
        /\ detected_data_type = ""
        /\ is_compatible = TRUE
        /\ error_message = <<>>
        /\ data_type = ""
        /\ stats = compute_stats(<<>>)
        /\ prompt = NoPrompt
        /\ outcome = NoOutcome
        /\ body = NoBodyYet
        /\ response = NoResponse
        /\ raised = ""
        /\ stages = <<>>
        /\ modelCalls = 0

\* DEFAULT_FORMAT: the environment variable, "json" when unset or empty,
\* in lower case.
DEFAULT_FORMAT ==
    lower(IF environ.DEFAULT_FORMAT = <<>> THEN <<"j", "s", "o", "n">> ELSE environ.DEFAULT_FORMAT)

\* The handler returns r.
Returns(r) ==
    /\ response' = r
    /\ pc' = "responded"
    /\ raised' = ""

\* The exception e leaves the handler.
Raises(e) ==
    /\ raised' = e
    /\ pc' = "raised"
    /\ response' = NoResponse

\* The handler goes on at position p.
Goto(p) ==
    /\ pc' = p
    /\ UNCHANGED <<response, raised>>

\* lambda_handler is entered with an event.
Invoke ==
    /\ pc = "idle"
    /\ \E ev \in Events : event' = ev
    /\ handler' = "sap-claude-handler"
    /\ pc' = "echo"
    /\ stages' = <<"RECEIVED">>
    /\ UNCHANGED <<store, environ, locals, response, raised, modelCalls>>

\* Lines 792-794: the debug echo answers before anything else.
EarlyEcho ==
    /\ handler = "sap-claude-handler" /\ pc = "echo"
    /\ IF early_echo(event, environ) # NoResponse
       THEN /\ Returns(early_echo(event, environ))
            /\ stages' = Append(stages, "RESPONDED")
       ELSE /\ Goto("method")
            /\ UNCHANGED stages
    /\ UNCHANGED <<store, environ, handler, event, locals, modelCalls>>

\* A dispatch that knows no OPTIONS: every method but POST is refused.
MethodDispatch_no_preflight ==
    /\ handler = "sap-claude-handler" /\ pc = "method"
    /\ IF method_of(event) # "POST"
       THEN /\ Returns(response_json(405, [message |-> "Use POST", format |-> "json"]))
            /\ stages' = stages \o <<"VALIDATED", "RESPONDED">>
       ELSE /\ Goto("parse")
            /\ UNCHANGED stages
    /\ UNCHANGED <<store, environ, handler, event, locals, modelCalls>>

\* Lines 797-804: OPTIONS and every method but POST are answered here.
MethodDispatch ==
    /\ handler = "sap-claude-handler" /\ pc = "method"
    /\ IF method_of(event) = "OPTIONS"
       THEN /\ Returns(response_json(200, [message |-> "", ok |-> TRUE]))
            /\ stages' = stages \o <<"VALIDATED", "RESPONDED">>
       ELSE IF method_of(event) # "POST"
       THEN /\ Returns(response_json(405, [message |-> "Use POST", format |-> "json"]))
            /\ stages' = stages \o <<"VALIDATED", "RESPONDED">>
       ELSE /\ Goto("parse")
            /\ UNCHANGED stages
    /\ UNCHANGED <<store, environ, handler, event, locals, modelCalls>>

\* A parser that goes on with the empty object when json.loads fails.
ParseBody_lenient ==
    /\ handler = "sap-claude-handler" /\ pc = "parse"
    /\ \E raw \in (IF event.isBase64Encoded
                   THEN b64decoded(raw_of(event), event.body.text # "text")
                   ELSE {raw_of(event)}) :
          data' = IF json_loads_body(raw).parses THEN json_loads_body(raw) ELSE EmptyObject
    /\ Goto("inputs")
    /\ UNCHANGED <<store, environ, handler, event, fmt, requested_analysis_type, classified,
                   compatibility, analysis, stages, modelCalls>>

\* Lines 807-819: the body, decoded when flagged as base64, is parsed.
ParseBody ==
    /\ handler = "sap-claude-handler" /\ pc = "parse"
    /\ \E raw \in (IF event.isBase64Encoded
                   THEN b64decoded(raw_of(event), event.body.text # "text")
                   ELSE {raw_of(event)}) :
          IF ~json_loads_body(raw).parses
          THEN /\ Returns(response_json(400, [message |-> "INVALID_JSON", format |-> "json"]))
               /\ stages' = stages \o <<"VALIDATED", "RESPONDED">>
               /\ UNCHANGED data
          ELSE /\ data' = json_loads_body(raw)
               /\ Goto("inputs")
               /\ UNCHANGED stages
    /\ UNCHANGED <<store, environ, handler, event, fmt, requested_analysis_type, classified,
                   compatibility, analysis, modelCalls>>

\* Lines 822-824: instruction, fmt and requested_analysis_type are read
\* with .get, .strip and .lower; a body that is no object, or a value that
\* is no string, raises AttributeError.
\* x.strip() / x.lower() of a value of the body: only a string has them.
ReadInputs ==
    LET is_str(x) == x.t = "str"
    IN  /\ handler = "sap-claude-handler" /\ pc = "inputs"
        /\ IF ~data.isObject
           THEN /\ Raises("AttributeError")
                /\ UNCHANGED <<fmt, requested_analysis_type, stages>>
           ELSE LET instruction == or_(or_(data.fields.instruction, data.fields.prompt), Str(<<>>))
                    f == or_(or_(data.fields.responseFormat, Str(DEFAULT_FORMAT)), Str(<<"j", "s", "o", "n">>))
                    a == IF data.fields.analysisType = Absent THEN Str(<<>>)
                         ELSE data.fields.analysisType
                IN  IF ~is_str(instruction) \/ ~is_str(f) \/ ~is_str(a)
                    THEN /\ Raises("AttributeError")
                         /\ UNCHANGED <<fmt, requested_analysis_type, stages>>
                    ELSE /\ fmt' = lower(f.v)
                         /\ requested_analysis_type' = strip(a.v)
                         /\ Goto("branch")
                         /\ stages' = Append(stages, "VALIDATED")
        /\ UNCHANGED <<store, environ, handler, event, data, classified, compatibility, analysis,
                       modelCalls>>

\* Line 827: the request is for the image branch.
image_branch ==
    requested_analysis_type = <<"d", "o", "c", "u", "m", "e", "n", "t">> \/ data.fields.fileType = Str(<<"i", "m", "a", "g", "e">>)

\* Lines 827-835: in the image branch a request without image data is
\* refused.
ImageCheck ==
    /\ handler = "sap-claude-handler" /\ pc = "branch"
    /\ image_branch
    /\ IF ~truthy(data.fields.imageData)
       THEN /\ Returns(response_json(400, [message |-> "Missing image data", format |-> "json"]))
            /\ stages' = Append(stages, "RESPONDED")
       ELSE /\ Goto("image")
            /\ UNCHANGED stages
    /\ UNCHANGED <<store, environ, handler, event, locals, modelCalls>>

\* What _analyze_document_image returns (lines 732-787): the text of
\* Textract's error when the extraction failed or the extracted text holds
\* the error word, else the model's reply in a frame, or the text of the
\* error of the model call.
analysis_result_of(textract_ok, o) ==
    IF ~textract_ok THEN <<"<text extraction error>">>
    ELSE IF o.raised THEN <<"<document image analysis error: ">> \o o.text
    ELSE <<"<document image analysis result: ">> \o o.text

\* Lines 837-849: the image is read by Textract and, when that gave a
\* text, the model is called once; every outcome is answered with 200.
AnalyzeImage ==
    /\ handler = "sap-claude-handler" /\ pc = "image"
    /\ \E textract_ok \in BOOLEAN :
       \E o \in {[raised |-> TRUE, text |-> e] : e \in ErrorTexts}
                \cup {[raised |-> FALSE, text |-> r] : r \in Replies} :
          /\ outcome' = IF textract_ok THEN o ELSE NoOutcome
          /\ modelCalls' = IF textract_ok THEN modelCalls + 1 ELSE modelCalls
          /\ stages' = stages \o (IF textract_ok
                                  THEN <<"PROMPTED", "MODEL_CALLED", "SHAPED", "RESPONDED">>
                                  ELSE <<"RESPONDED">>)
          /\ Returns(response_json(200,
                 [message |-> "Image analysis completed", format |-> "json",
                  response |-> [summary |-> analysis_result_of(textract_ok, o)]]))
    /\ UNCHANGED <<store, environ, handler, event, inputs, classified, compatibility, stats,
                   prompt, body>>

\* Lines 864-879: the rows are taken from the body, the columns from the
\* first row, and the classifier is run on the first five rows.
Classify ==
    /\ handler = "sap-claude-handler" /\ pc = "branch"
    /\ ~image_branch
    /\ LET rows == sales_of(data.fields)
       IN  /\ sales' = rows
           /\ IF rows # <<>> /\ ~rows[1].isRecord
              THEN /\ Raises("AttributeError")
                   /\ UNCHANGED <<columns, detected_data_type, stages>>
              ELSE LET cols == IF rows # <<>> THEN keys(rows[1]) ELSE <<>>
                       detected == identify_data_type(cols, SubSeq(rows, 1, IF Len(rows) < 5
                                                                     THEN Len(rows) ELSE 5))
                   IN  /\ columns' = cols
                       /\ IF detected \in Exceptions
                          THEN /\ Raises(detected)
                               /\ UNCHANGED <<detected_data_type, stages>>
                          ELSE /\ detected_data_type' = detected
                               /\ Goto("compatibility")
                               /\ stages' = Append(stages, "CLASSIFIED")
    /\ UNCHANGED <<store, environ, handler, event, inputs, compatibility, analysis, modelCalls>>

\* Lines 882-913: a requested analysis type is checked against the
\* detected type and, when accepted, selects the type of the analysis.
CheckCompatibility ==
    /\ handler = "sap-claude-handler" /\ pc = "compatibility"
    /\ IF requested_analysis_type # <<>>
       THEN LET v == validate_analysis_compatibility(detected_data_type, requested_analysis_type)
            IN  /\ is_compatible' = v[1]
                /\ error_message' = v[2]
                /\ IF ~v[1]
                   THEN /\ Returns(response_json(200,
                               [message |-> "DATA_TYPE_MISMATCH", format |-> fmt,
                                response |-> [summary_ai |-> v[2], presentation_md |-> v[2],
                                              key_insights |-> <<>>]]))
                        /\ stages' = Append(stages, "RESPONDED")
                        /\ UNCHANGED data_type
                   ELSE /\ data_type' = type_mapping(requested_analysis_type, detected_data_type)
                        /\ Goto("prompt")
                        /\ UNCHANGED stages
       ELSE /\ data_type' = detected_data_type
            /\ Goto("prompt")
            /\ UNCHANGED <<is_compatible, error_message, stages>>
    /\ UNCHANGED <<store, environ, handler, event, inputs, classified, analysis, modelCalls>>

\* Lines 915-930: the statistics are computed and the prompt is built.
BuildPrompt ==
    /\ handler = "sap-claude-handler" /\ pc = "prompt"
    /\ IF compute_stats_raises(sales)
       THEN /\ Raises("AttributeError")
            /\ UNCHANGED <<stats, prompt, stages>>
       ELSE /\ stats' = compute_stats(sales)
            /\ prompt' = build_prompt(fmt, compute_stats(sales), data_type)
            /\ Goto("call")
            /\ stages' = Append(stages, "PROMPTED")
    /\ UNCHANGED <<store, environ, handler, event, inputs, classified, compatibility, outcome,
                   body, modelCalls>>

\* Line 933: the one call of the model, which returns a text or raises.
CallModel ==
    /\ handler = "sap-claude-handler" /\ pc = "call"
    /\ \E o \in {[raised |-> TRUE, text |-> e] : e \in ErrorTexts}
                \cup {[raised |-> FALSE, text |-> r] : r \in Replies} :
          outcome' = o
    /\ modelCalls' = modelCalls + 1
    /\ stages' = Append(stages, "MODEL_CALLED")
    /\ Goto("shape")
    /\ UNCHANGED <<store, environ, handler, event, inputs, classified, compatibility, stats,
                   prompt, body>>

\* A shaping step that calls the model once more when the call failed.
ShapeReply_retrying ==
    /\ handler = "sap-claude-handler" /\ pc = "shape"
    /\ IF outcome.raised /\ modelCalls < 2
       THEN /\ Goto("call")
            /\ UNCHANGED <<body, stages>>
       ELSE IF presentation_raises(stats) # ""
       THEN /\ Raises(presentation_raises(stats))
            /\ UNCHANGED <<body, stages>>
       ELSE /\ body' = final_body(fmt, Len(sales), stats,
                           shaped(fmt, outcome,
                                  [total_sales |-> stats.total_sales,
                                   top_products |-> stats.top_products],
                                  stats.timeseries))
            /\ Goto("return")
            /\ stages' = Append(stages, "SHAPED")
    /\ UNCHANGED <<store, environ, handler, event, inputs, classified, compatibility, stats,
                   prompt, outcome, modelCalls>>

\* Lines 934-1011: the reply (or the error of the call) is shaped, the
\* presentation text is formatted and the body is put together; int() of
\* an infinite or undefined amount raises.
ShapeReply ==
    /\ handler = "sap-claude-handler" /\ pc = "shape"
    /\ IF presentation_raises(stats) # ""
       THEN /\ Raises(presentation_raises(stats))
            /\ UNCHANGED <<body, stages>>
       ELSE /\ body' = final_body(fmt, Len(sales), stats,
                           shaped(fmt, outcome,
                                  [total_sales |-> stats.total_sales,
                                   top_products |-> stats.top_products],
                                  stats.timeseries))
            /\ Goto("return")
            /\ stages' = Append(stages, "SHAPED")
    /\ UNCHANGED <<store, environ, handler, event, inputs, classified, compatibility, stats,
                   prompt, outcome, modelCalls>>

\* Line 1012: the response is returned.
Respond ==
    /\ handler = "sap-claude-handler" /\ pc = "return"
    /\ Returns(response_json(200, body))
    /\ stages' = Append(stages, "RESPONDED")
    /\ UNCHANGED <<store, environ, handler, event, locals, modelCalls>>

\* An end of the invocation that keeps the rows, the category and the
\* statistics where the next invocation finds them.
Finish_keeping_results ==
    /\ pc \in {"responded", "raised"}
    /\ pc' = "idle"
    /\ handler' = ""
    /\ event' = NoEvent
    /\ response' = NoResponse
    /\ raised' = ""
    /\ stages' = <<>>
    /\ modelCalls' = 0
    /\ UNCHANGED <<store, environ, locals>>

\* The invocation is over; the next one starts from nothing.
Finish ==
    /\ pc \in {"responded", "raised"}
    /\ pc' = "idle"
    /\ handler' = ""
    /\ event' = NoEvent
    /\ data' = Unparseable
    /\ fmt' = <<>>
    /\ requested_analysis_type' = <<>>
    /\ sales' = <<>>
    /\ columns' = <<>>
    /\ detected_data_type' = ""
    /\ is_compatible' = TRUE
    /\ error_message' = <<>>
    /\ data_type' = ""
    /\ stats' = compute_stats(<<>>)
    /\ prompt' = NoPrompt
    /\ outcome' = NoOutcome
    /\ body' = NoBodyYet
    /\ response' = NoResponse
    /\ raised' = ""
    /\ stages' = <<>>
    /\ modelCalls' = 0
    /\ UNCHANGED <<store, environ>>


\* ------------------------------------------------- the image handlers

\* The headers of src/lambda/smart-image-analyzer/lambda_function.py on
\* the paths inside its try statement.
smart_headers ==
    { <<"Content-Type", "application/json">>,
      <<"Access-Control-Allow-Origin", "*">>,
      <<"Access-Control-Allow-Headers", "Content-Type">>,
      <<"Access-Control-Allow-Methods", "OPTIONS,POST">> }

\* The headers of src/image_analyzer.py, and of the except clause of
\* both image handlers.
plain_headers == { <<"Content-Type", "application/json">> }

\* http_method of the image handlers: httpMethod, else the method of
\* requestContext.http, else None (here "").
http_method_of(ev) == IF ev.httpMethod # "" THEN ev.httpMethod ELSE ev.rcMethod

\* The requests to the image handlers.
ImageEvents ==
    { Event(<<>>, rc, http, FALSE, b) :
        rc \in {"", "POST"}, http \in Methods,
        b \in {NoBody, EmptyBody, Body("base64", EmptyObject)}
              \cup {Body("plain", d) :
                      d \in {Unparseable, NonObject, EmptyObject,
                             With([image_data |-> Str(<<"<base64 image>">>)]),
                             With([image_data |-> Null])}} }

\* lambda_handler of an image handler: the response for an event.  The
\* headers are those of the handler; logsKeys says whether the handler
\* logs list(data.keys()); membership says whether 'image_data' not in data
\* can be evaluated for the body that is no object (it can for a list or a
\* string, not for a number or null); o is what analyze_image_with_claude
\* does.  Every exception ends in the except clause.
image_response(ev, headers, logsKeys, membership, o) ==
    LET failed == [statusCode |-> 500, headers |-> plain_headers,
                   body |-> [message |-> "error"]]
    IN  IF http_method_of(ev) = "OPTIONS"
        THEN [statusCode |-> 200, headers |-> headers, body |-> [message |-> "CORS preflight"]]
        ELSE IF http_method_of(ev) # "POST"
        THEN [statusCode |-> 405, headers |-> headers, body |-> [message |-> "not allowed"]]
        ELSE LET doc == IF ev.body.text = "none" THEN EmptyObject
                        ELSE IF ev.body.text = "empty" THEN Unparseable
                        ELSE json_loads_body(ev.body)
             IN  IF ~doc.parses THEN failed
                 ELSE IF ~doc.isObject
                 THEN (IF logsKeys \/ ~membership THEN failed
                       ELSE [statusCode |-> 400, headers |-> headers,
                             body |-> [message |-> "image_data is required"]])
                 ELSE IF doc.fields.image_data.t = "absent"
                 THEN [statusCode |-> 400, headers |-> headers,
                       body |-> [message |-> "image_data is required"]]
                 ELSE IF o.raised THEN failed
                 ELSE [statusCode |-> 200, headers |-> headers,
                       body |-> [message |-> "success", result |-> o.text]]

\* The model is called when the request has image data.
image_calls(ev) ==
    /\ http_method_of(ev) = "POST"
    /\ ev.body.text = "text"
    /\ json_loads_body(ev.body).isObject
    /\ json_loads_body(ev.body).fields.image_data.t # "absent"

\* One invocation of an image handler, from the event to the response.
ImageInvocation(name, headers, logsKeys) ==
    /\ pc = "idle"
    /\ \E ev \in ImageEvents, membership \in BOOLEAN :
       \E o \in {[raised |-> TRUE, text |-> e] : e \in ErrorTexts}
                \cup {[raised |-> FALSE, text |-> <<"<analysis>">>]} :
          /\ event' = ev
          /\ outcome' = IF image_calls(ev) THEN o ELSE NoOutcome
          /\ modelCalls' = IF image_calls(ev) THEN 1 ELSE 0
          /\ Returns(image_response(ev, headers, logsKeys, membership, o))
    /\ handler' = name
    /\ UNCHANGED <<store, environ, inputs, classified, compatibility, stats, prompt, body, stages>>

\* lambda_handler of src/lambda/smart-image-analyzer/lambda_function.py
SmartImageAnalyzer == ImageInvocation("smart-image-analyzer", smart_headers, FALSE)

\* lambda_handler of src/image_analyzer.py
ImageAnalyzer == ImageInvocation("image_analyzer", plain_headers, TRUE)

\* ------------------------------------------------ the classifier alone

\* The longest column list the classifier is given on its own.
MaxColumns == 2

\* _identify_data_type is about to be called with some columns (a short list,
\* or the columns of a staff table) and with no sample row or one.
InitClassifier ==
    /\ StoreIdle
    /\ environ \in {[LAMBDA_DEBUG_ECHO |-> "", DEFAULT_FORMAT |-> <<>>]}
    /\ handler = "_identify_data_type"
    /\ pc = "call"
    /\ event = NoEvent
    /\ data = Unparseable
    /\ fmt = <<>>
    /\ requested_analysis_type = <<>>
    /\ sales \in {<<>>} \cup {<<r>> : r \in RowVocabulary}
    /\ columns \in SeqsUpTo({ <<"s", "a", "l", "a", "r", "y">>, <<"C", "a", "m", "p", "a", "i", "g", "n">>, <<"s", "a", "l", "e", "s">>, <<"p", "r", "o", "f", "i", "t">>, <<"s", "t", "o", "c", "k">>,
                              <<"m", "e", "m", "b", "e", "r">>, <<"r", "e", "g", "i", "o", "n">>, <<"m", "e", "m", "o">>, <<"U+793E", "U+54E1", "I", "D">> }, MaxColumns)
                   \cup { << <<"U+793E", "U+54E1", "I", "D">>, <<"U+90E8", "U+7F72">>, <<"U+7D66", "U+4E0E">>, <<"U+6B8B", "U+696D", "U+6642", "U+9593">> >> }
    /\ detected_data_type = ""
    /\ is_compatible = TRUE
    /\ error_message = <<>>
    /\ data_type = ""
    /\ stats = compute_stats(<<>>)
    /\ prompt = NoPrompt
    /\ outcome = NoOutcome
    /\ body = NoBodyYet
    /\ response = NoResponse
    /\ raised = ""
    /\ stages = <<>>
    /\ modelCalls = 0

\* _identify_data_type(columns, sales) returns a category or raises.
IdentifyDataType ==
    /\ handler = "_identify_data_type" /\ pc = "call"
    /\ LET result == identify_data_type(columns, sales)
       IN  IF result \in Exceptions
           THEN /\ raised' = result
                /\ pc' = "raised"
                /\ UNCHANGED detected_data_type
           ELSE /\ detected_data_type' = result
                /\ pc' = "returned"
                /\ UNCHANGED raised
    /\ UNCHANGED <<store, environ, handler, event, inputs, sales, columns, compatibility, analysis,
                   response, stages, modelCalls>>
\* ------------------------------------------------- the v2 sales handler

\* build_sales_analysis_input(sales_data, ...) of
\* src/lambda/sap-claude-handler-v2.py, by what the fallback reads of it:
\* whether the input has a summary, summary.rows and summary.totals.  The
\* amount column is the last column of the first row whose lowercase name
\* holds one of the patterns of the first canonical name; float() of a
\* cleaned amount raises where the text is no number.
build_sales_analysis_input(sales_data) ==
    IF sales_data = <<>>
    THEN [raises |-> FALSE, has_summary |-> FALSE, rows |-> 0,
          has_sales |-> FALSE, sales |-> Fin(0)]
    ELSE IF \E i \in 1..Len(sales_data) : ~sales_data[i].isRecord
    THEN [raises |-> TRUE, has_summary |-> FALSE, rows |-> 0,
          has_sales |-> FALSE, sales |-> Fin(0)]
    ELSE LET cols == keys(sales_data[1])
             mapped(c) == \E p \in { <<"U+58F2", "U+4E0A">>, <<"U+58F2", "U+308A", "U+4E0A", "U+3052">>, <<"U+91D1", "U+984D">>, <<"s", "a", "l", "e", "s">>, <<"a", "m", "o", "u", "n", "t">>,
                                     <<"U+58F2", "U+4E0A", "U+91D1", "U+984D">>, <<"U+58F2", "U+4E0A", "U+9AD8">> } : Contains(lower(c), p)
             found == {i \in 1..Len(cols) : mapped(cols[i])}
             sales_col == cols[CHOOSE i \in found : \A j \in found : j <= i]
             clean(r) == strip(replace(replace(replace(get(r, sales_col, <<"0">>), <<",">>, <<>>),
                                               <<"U+00A5">>, <<>>), <<"U+5186">>, <<>>))
             amount(r) == IF clean(r) = <<>> THEN [ok |-> TRUE, val |-> Fin(0)]
                          ELSE float_parse(clean(r))
             total[i \in 0..Len(sales_data)] ==
                 IF i = 0 THEN Fin(0) ELSE float_add(total[i - 1], amount(sales_data[i]).val)
         IN  IF found = {}
             THEN [raises |-> FALSE, has_summary |-> TRUE, rows |-> Len(sales_data),
                   has_sales |-> FALSE, sales |-> Fin(0)]
             ELSE [raises |-> \E i \in 1..Len(sales_data) : ~amount(sales_data[i]).ok,
                   has_summary |-> TRUE, rows |-> Len(sales_data),
                   has_sales |-> TRUE, sales |-> total[Len(sales_data)]]

\* generate_fallback_response(input_data): rows and the total are read with
\* defaults of 0; avg_order is total_sales / rows if rows > 0 else None.
generate_fallback_response(input_data) ==
    LET rows == IF input_data.has_summary THEN input_data.rows ELSE 0
        total_sales == IF input_data.has_summary /\ input_data.has_sales
                       THEN input_data.sales ELSE Fin(0)
    IN  [overview |-> <<"<processed>", rows>>,
         kpis |-> [total_sales |-> total_sales,
                   avg_order |-> IF rows > 0
                                 THEN [none |-> FALSE, value |-> Quotient(total_sales, rows)]
                                 ELSE [none |-> TRUE, value |-> Quotient(Fin(0), 1)],
                   top_product |-> "None", yoy |-> "None"],
         insights |-> << [title |-> "<data summary>", detail |-> <<rows, total_sales>>] >>,
         timeseries |-> <<>>,
         warnings |-> << "<automatic analysis failed, basic totals only>" >>]

\* lambda_handler of src/lambda/sap-claude-handler-v2.py, from the event to
\* the response, in a deployment without the supabase library.  The body
\* is read without a look at the method; a body of None raises TypeError
\* in json.loads and a body that is no object raises in body.get, and
\* both end in the last except clause (500), as does an exception of
\* build_sales_analysis_input.  client says whether boto3.client returned.
\* o is what invoke_model does: it raises, or the reply text is a valid
\* output object (alone or inside other text), an object that fails the
\* validation, the empty object, or a text without a JSON object.  After
\* a reply that parses and fails the validation, ai_response still holds
\* the parsed value, and the fallback replaces it only when it is falsy.
\* The rows sent are those of the vocabulary with an amount column, and
\* the row that is no object.
SalesAnalysisV2 ==
    /\ pc = "idle"
    /\ LET V2RowLists ==
               SeqsUpTo({r \in RowVocabulary :
                            ~r.isRecord \/ \E i \in 1..Len(r.cells) : r.cells[i][1] = <<"s", "a", "l", "e", "s">>},
                        MaxRows) IN
       \E b \in {NoBody, EmptyBody, Body("plain", Unparseable), Body("plain", NonObject)}
                \cup {Body("plain", With([prompt |-> p, salesData |-> sd, data |-> d])) :
                        p \in {Absent, Str(<<"<question>">>)},
                        sd \in {Absent} \cup {List(rows) : rows \in V2RowLists},
                        d \in {Absent, List(<<Record(<< <<<<"a", "m", "o", "u", "n", "t">>, <<"5", "0", "0">>>> >>)>>)}},
          keyPresent \in BOOLEAN, client \in BOOLEAN :
       \E o \in {[raised |-> TRUE, text |-> e] : e \in ErrorTexts}
                \cup {[raised |-> FALSE, text |-> t] :
                        t \in { <<"<valid output>">>, <<"n", "o", "t", "e", " ", "<valid output>">>,
                                <<"<invalid object>">>, <<"{", "}">>, <<"s", "o", "r", "r", "y">> }} :
          LET response_builder(status_code, bd) ==
                  [statusCode |-> status_code,
                   headers |-> { <<"Content-Type", "application/json">>,
                                 <<"Access-Control-Allow-Origin", "*">>,
                                 <<"Access-Control-Allow-Headers",
                                   "Content-Type, Authorization, X-Requested-With">>,
                                 <<"Access-Control-Allow-Methods", "POST, OPTIONS, GET">> },
                   body |-> bd]
              doc == IF b.text = "none" THEN EmptyObject
                     ELSE IF b.text = "empty" THEN Unparseable
                     ELSE json_loads_body(b)
              sales_data == LET v == or_(doc.fields.salesData, doc.fields.data)
                            IN  IF truthy(v) THEN v.items ELSE <<>>
              analysis_input == build_sales_analysis_input(sales_data)
              fallback == generate_fallback_response(analysis_input)
              called == /\ ~(b.text = "none" /\ keyPresent)
                        /\ doc.isObject /\ truthy(doc.fields.prompt)
                        /\ ~analysis_input.raises /\ client
              ai_response ==
                  IF o.text \in { <<"<valid output>">>, <<"n", "o", "t", "e", " ", "<valid output>">> }
                  THEN [overview |-> <<"<model overview>">>, insights |-> <<>>]
                  ELSE IF o.text = <<"<invalid object>">>
                  THEN [overview |-> "None"]
                  ELSE fallback
          IN  /\ event' = Event(<<>>, "", "POST", FALSE, b)
              /\ sales' = IF doc.isObject THEN sales_data ELSE <<>>
              /\ outcome' = IF called THEN o ELSE NoOutcome
              /\ modelCalls' = IF called THEN 1 ELSE 0
              /\ Returns(
                   IF b.text = "none" /\ keyPresent
                   THEN response_builder(500, [error |-> "<internal error>"])
                   ELSE IF ~doc.parses
                   THEN response_builder(400, [error |-> "<json could not be parsed>"])
                   ELSE IF ~doc.isObject
                   THEN response_builder(500, [error |-> "<internal error>"])
                   ELSE IF ~truthy(doc.fields.prompt)
                   THEN response_builder(400, [error |-> "<a prompt is needed>"])
                   ELSE IF analysis_input.raises
                   THEN response_builder(500, [error |-> "<internal error>"])
                   ELSE IF ~client
                   THEN response_builder(500, [error |-> "<initialisation failed>"])
                   ELSE IF o.raised
                   THEN response_builder(200,
                            [response |-> fallback,
                             message |-> "<analysis failed, basic totals shown>",
                             dataProcessed |-> Len(sales_data)])
                   ELSE response_builder(200,
                            [response |-> ai_response,
                             message |-> "<analysis completed>",
                             dataProcessed |-> Len(sales_data),
                             requestId |-> "<uuid>"]))
    /\ handler' = "sap-claude-handler-v2"
    /\ UNCHANGED <<store, environ, inputs, columns, detected_data_type, compatibility, stats,
                   prompt, body, stages>>


\* ------------------------------------------------- the legacy handler

\* lambda_handler of src/lambda/sap-claude-handler.py, from the event to
\* the response.  The bodies are none, the empty text, a text json.loads
\* rejects, and objects whose data key is missing, null, the empty list or
\* a list of row objects; use_claude is what the comparison of the
\* environment's USE_CLAUDE_API with 'true' gives, and o what
\* call_claude_api does.  After call_claude_api returns, the handler
\* evaluates the comparison response_format == 'text'; no assignment, no
\* parameter and no import of the file binds response_format, so the
\* evaluation raises NameError inside the try block whose except clause
\* answers 500 'AI analysis failed', and neither of the two 200 responses
\* below it is reached.  In the branch without the model the body holds
\* the column types and null counts of the frame, which json.dumps
\* rejects when the frame has a column; the last except clause answers.
LegacyHandler ==
    /\ pc = "idle"
    /\ \E http \in {"POST", "OPTIONS"}, qs \in {<<>>, <<"e", "c", "h", "o", "=", "1">>},
          b \in {NoBody, EmptyBody, Body("plain", Unparseable)}
                \cup {Body("plain", With([data |-> d])) :
                        d \in {Absent, Null, List(<<>>)}
                              \cup {List(rows) : rows \in
                                      { <<Record(<<>>)>>,
                                        <<Record(<< <<<<"s", "a", "l", "e", "s">>, <<"5", "0", "0">>>> >>)>>,
                                        <<Record(<< <<<<"s", "a", "l", "e", "s">>, <<"5", "0", "0">>>> >>),
                                          Record(<< <<<<"s", "a", "l", "e", "s">>, <<"1">>>> >>)>> }}},
          use_claude \in BOOLEAN :
       \E o \in {[raised |-> TRUE, text |-> e] : e \in ErrorTexts}
                \cup {[raised |-> FALSE, text |-> t] : t \in {<<"<analysis>">>, <<>>}} :
          LET response_builder(status_code, bd) ==
                  [statusCode |-> status_code,
                   headers |-> { <<"Content-Type", "application/json">>,
                                 <<"Access-Control-Allow-Origin", "*">>,
                                 <<"Access-Control-Allow-Headers",
                                   "Content-Type,X-Amz-Date,Authorization,X-Api-Key,X-Amz-Security-Token">>,
                                 <<"Access-Control-Allow-Methods", "GET,POST,OPTIONS,PUT,DELETE">> },
                   body |-> bd]
              doc == json_loads_body(b)
              debug_echo_enabled == environ.LAMBDA_DEBUG_ECHO = "1" \/ qs = <<"e", "c", "h", "o", "=", "1">>
              rows_data == IF truthy(doc.fields.data) THEN doc.fields.data.items ELSE <<>>
              has_columns == \E i \in 1..Len(rows_data) : rows_data[i].cells # <<>>
              analysed == /\ http # "OPTIONS" /\ b.text = "text" /\ doc.parses
                          /\ ~debug_echo_enabled /\ rows_data # <<>>
              called == analysed /\ use_claude
          IN  /\ event' = Event(qs, "", http, FALSE, b)
              /\ sales' = IF analysed THEN rows_data ELSE <<>>
              /\ outcome' = IF called THEN o ELSE NoOutcome
              /\ modelCalls' = IF called THEN 1 ELSE 0
              /\ Returns(
                   IF http = "OPTIONS"
                   THEN response_builder(200, [message |-> "CORS preflight successful"])
                   ELSE IF b.text # "text"
                   THEN response_builder(400, [error |-> <<"Request body is required">>])
                   ELSE IF ~doc.parses
                   THEN response_builder(400, [error |-> <<"Invalid JSON in request body">>])
                   ELSE IF debug_echo_enabled
                   THEN response_builder(200, [message |-> "Debug echo mode",
                                               rows_detected |-> Len(rows_data)])
                   ELSE IF rows_data # <<>>
                   THEN IF use_claude
                        THEN IF o.raised
                             THEN response_builder(500,
                                      [error |-> <<"AI analysis failed: ">> \o o.text])
                             ELSE response_builder(500,
                                      [error |-> <<"AI analysis failed: ",
                                                   "name 'response_format' is not defined">>])
                        ELSE IF has_columns
                             THEN response_builder(500,
                                      [error |-> <<"Internal server error: ",
                                                   "<not JSON serializable>">>])
                             ELSE response_builder(200, [overview |-> "<mock insights>"])
                   ELSE IF doc.fields.data.t # "absent"
                   THEN response_builder(400,
                            [error |-> <<"Data field must be a non-empty array">>])
                   ELSE response_builder(400, [error |-> <<"No valid data found">>]))
    /\ handler' = "sap-claude-handler.py"
    /\ UNCHANGED <<store, environ, inputs, columns, detected_data_type, compatibility, stats,
                   prompt, body, stages>>
Next ==
    \/ Invoke
    \/ EarlyEcho
    \/ MethodDispatch
    \/ ParseBody
    \/ ReadInputs
    \/ ImageCheck
    \/ AnalyzeImage
    \/ Classify
    \/ CheckCompatibility
    \/ BuildPrompt
    \/ CallModel
    \/ ShapeReply
    \/ Respond
    \/ SmartImageAnalyzer
    \/ ImageAnalyzer
    \/ SalesAnalysisV2
    \/ LegacyHandler
    \/ Finish

Spec == Init /\ [][Next]_vars

SpecClassifier == InitClassifier /\ [][IdentifyDataType]_vars


\* ----------------------------------- the classifier called once more

\* The length of the column list of the first call.
BaseColumns == 1

\* The strong keywords of a category.
StrongKeywords(c) ==
    IF c = "hr_data" THEN keyword_lists.hr_strong_keywords
    ELSE IF c = "marketing_data" THEN keyword_lists.marketing_strong_keywords
    ELSE IF c = "sales_data" THEN keyword_lists.sales_strong_keywords
    ELSE IF c = "financial_data" THEN keyword_lists.financial_strong_keywords
    ELSE IF c = "inventory_data" THEN keyword_lists.inventory_strong_keywords
    ELSE keyword_lists.customer_strong_keywords

\* The column list with the name k put in before position p.
WithColumn(cols, k, p) == SubSeq(cols, 1, p - 1) \o <<k>> \o SubSeq(cols, p, Len(cols))

\* _identify_data_type is about to be called with a column list of the
\* base length and with no sample row, the row of a member with a mail
\* address, or an empty row.
InitMonotone ==
    /\ InitClassifier
    /\ Len(columns) = BaseColumns
    /\ sales \in { <<>>,
                   <<Record(<< <<<<"m", "e", "m", "b", "e", "r">>, <<"m">>>>, <<<<"m", "a", "i", "l">>, <<"a", "@", "b">>>> >>)>>,
                   <<Record(<<>>)>> }

\* After a call that returned, the caller puts a column named by a strong
\* keyword of some category into the list and calls again with the same
\* sample.
AddStrongKeyword ==
    /\ handler = "_identify_data_type" /\ pc = "returned"
    /\ Len(columns) = BaseColumns
    /\ \E X \in Categories :
       \E i \in 1..Len(StrongKeywords(X)), p \in 1..(Len(columns) + 1) :
          columns' = WithColumn(columns, StrongKeywords(X)[i], p)
    /\ pc' = "call"
    /\ UNCHANGED <<store, environ, handler, event, inputs, sales, detected_data_type,
                   compatibility, analysis, response, raised, stages, modelCalls>>

SpecMonotone == InitMonotone /\ [][IdentifyDataType \/ AddStrongKeyword]_vars

\* ------------------------------------------- the aggregation called alone

\* The longest row list of every row of the vocabulary below.
MaxStatRows == 3

\* _compute_stats is about to be called with rows of a label and an amount:
\* every short list of the rows A 1, B 2, C 2, D 3, E 1, F 2 and B nan, and
\* the six rows without nan in every order (one label more than
\* most_common picks); or with every short list of rows that differ in
\* their keys and their dates: a date with a time, the same day and the day
\* before it, an empty date, a row without a date, a row with two date
\* columns and a column of two roles, a row no role reads, and a row that
\* is no object.
InitStats ==
    LET row(p, a) == Record(<< <<<<"p", "r", "o", "d", "u", "c", "t">>, p>>, <<<<"s", "a", "l", "e", "s">>, a>> >>)
        plain == { row(<<"A">>, <<"1">>), row(<<"B">>, <<"2">>), row(<<"C">>, <<"2">>),
                   row(<<"D">>, <<"3">>), row(<<"E">>, <<"1">>), row(<<"F">>, <<"2">>) }
        dated == { Record(<< <<<<"d", "a", "t", "e">>, <<" ", "2", "0", "2", "4", "/", "0", "1", "/", "0", "2", " ", "1", "0", ":", "0", "0", " ">>>>, <<<<"s", "a", "l", "e", "s">>, <<"1">>>> >>),
                   Record(<< <<<<"d", "a", "t", "e">>, <<"2", "0", "2", "4", "-", "0", "1", "-", "0", "2">>>>, <<<<"s", "a", "l", "e", "s">>, <<"2">>>> >>),
                   Record(<< <<<<"d", "a", "t", "e">>, <<"2", "0", "2", "4", "-", "0", "1", "-", "0", "1">>>>, <<<<"s", "a", "l", "e", "s">>, <<"3">>>> >>),
                   Record(<< <<<<"d", "a", "t", "e">>, <<>> >>, <<<<"s", "a", "l", "e", "s">>, <<"1">>>> >>),
                   Record(<< <<<<"s", "a", "l", "e", "s">>, <<"2">>>> >>),
                   Record(<< <<<<"o", "r", "d", "e", "r", "_", "d", "a", "t", "e">>, <<"2", "0", "2", "4", "-", "0", "1", "-", "0", "3">>>>, <<<<"d", "a", "t", "e">>, <<"1", "/", "2">>>>,
                             <<<<"i", "t", "e", "m", "_", "t", "o", "t", "a", "l">>, <<"4">>>>, <<<<"s", "a", "l", "e", "s">>, <<"9">>>> >>),
                   Record(<< <<<<"x">>, <<"1">>>> >>),
                   NonRecord }
    IN  /\ StoreIdle
        /\ environ \in {[LAMBDA_DEBUG_ECHO |-> "", DEFAULT_FORMAT |-> <<>>]}
        /\ handler = "_compute_stats"
        /\ pc = "call"
        /\ event = NoEvent
        /\ data = Unparseable
        /\ fmt = <<>>
        /\ requested_analysis_type = <<>>
        /\ sales \in SeqsUpTo(plain \cup {row(<<"B">>, <<"n", "a", "n">>)}, MaxStatRows)
                     \cup {s \in [1..(TopN + 1) -> plain] :
                             \A i, j \in 1..(TopN + 1) : s[i] = s[j] => i = j}
                     \cup SeqsUpTo(dated, MaxStatRows)
        /\ columns = <<>>
        /\ detected_data_type = ""
        /\ is_compatible = TRUE
        /\ error_message = <<>>
        /\ data_type = ""
        /\ stats = compute_stats(<<>>)
        /\ prompt = NoPrompt
        /\ outcome = NoOutcome
        /\ body = NoBodyYet
        /\ response = NoResponse
        /\ raised = ""
        /\ stages = <<>>
        /\ modelCalls = 0

\* _compute_stats(sales) returns the statistics or raises.
ComputeStats ==
    /\ handler = "_compute_stats" /\ pc = "call"
    /\ IF compute_stats_raises(sales)
       THEN /\ raised' = "AttributeError"
            /\ pc' = "raised"
            /\ UNCHANGED stats
       ELSE /\ stats' = compute_stats(sales)
            /\ pc' = "returned"
            /\ UNCHANGED raised
    /\ UNCHANGED <<store, environ, handler, event, inputs, classified, compatibility, prompt,
                   outcome, body, response, stages, modelCalls>>

SpecStats == InitStats /\ [][ComputeStats]_vars

\* ---------------------------------------------- the helpers called alone

\* The longest text handed to _to_number and to _parse_csv_simple.
MaxNumberLen == 3
MaxCsvLen == 5

\* _to_number or _parse_csv_simple is about to be called; the argument is
\* kept in data.  _to_number gets a value by its str() image: every short
\* text of digits, separators, signs, blanks and letters, the images of
\* null, true, a list and an object, texts with the currency literals of
\* the source file and with the yen sign and the yen character, inf and
\* nan.  _parse_csv_simple gets every short text of a header character, a
\* cell character, commas, line feeds and blanks.
InitHelpers ==
    /\ StoreIdle
    /\ environ \in {[LAMBDA_DEBUG_ECHO |-> "", DEFAULT_FORMAT |-> <<>>]}
    /\ \/ /\ handler = "_to_number"
          /\ data \in SeqsUpTo({"1", "2", ",", "-", " ", "a"}, MaxNumberLen)
                      \cup { <<"N", "o", "n", "e">>, <<"T", "r", "u", "e">>, <<"[", "1", ",", " ", "2", "]">>, <<"{", "'", "a", "'", ":", " ", "1", "}">>, <<" ", "1", ",", "0", "0", "0", " ">>,
                             <<"+", "5">>, <<"i", "n", "f">>, <<"-", "I", "n", "f", "i", "n", "i", "t", "y">>, <<"n", "a", "n">>, <<"1", ",", "0", "0", "0", "U+5186">>, <<"U+00A5", "3", "0", "0">>,
                             <<"U+00C2", "U+00A5">> \o <<"3", "0", "0">>, <<"1", ",", "2", "0", "0">> \o <<"U+00E5", "U+2020", "U+2020">> }
       \/ /\ handler = "_parse_csv_simple"
          /\ data \in SeqsUpTo({"h", "1", ",", "U+000A", " "}, MaxCsvLen)
    /\ pc = "call"
    /\ event = NoEvent
    /\ fmt = <<>>
    /\ requested_analysis_type = <<>>
    /\ sales = <<>>
    /\ columns = <<>>
    /\ detected_data_type = ""
    /\ is_compatible = TRUE
    /\ error_message = <<>>
    /\ data_type = ""
    /\ stats = compute_stats(<<>>)
    /\ prompt = NoPrompt
    /\ outcome = NoOutcome
    /\ body = NoBodyYet
    /\ response = NoResponse
    /\ raised = ""
    /\ stages = <<>>
    /\ modelCalls = 0

\* _to_number(data) returns a float, kept in outcome; the except clause of
\* the function lets no exception out.
ToNumber ==
    /\ handler = "_to_number" /\ pc = "call"
    /\ outcome' = [raised |-> FALSE, text |-> <<>>, value |-> to_number(data)]
    /\ pc' = "returned"
    /\ UNCHANGED <<store, environ, handler, event, inputs, classified, compatibility, stats, prompt,
                   body, response, raised, stages, modelCalls>>

\* sales = _parse_csv_simple(data)
ParseCsvSimple ==
    /\ handler = "_parse_csv_simple" /\ pc = "call"
    /\ sales' = parse_csv_simple(data)
    /\ pc' = "returned"
    /\ UNCHANGED <<store, environ, handler, event, inputs, columns, detected_data_type, compatibility,
                   analysis, response, raised, stages, modelCalls>>

SpecHelpers == InitHelpers /\ [][ToNumber \/ ParseCsvSimple]_vars

\* ------------------------------------------- the format-learning store

\* generate_format_signature(headers): empty headers are skipped; the
\* others are lowered, stripped and freed of ' ', '_' and '-', then sorted
\* and joined with '|'.  The digest is kept as the text it is taken of:
\* equal texts have equal digests, and distinct texts of the model are
\* taken to have distinct ones.
generate_format_signature(headers) ==
    LET normalized(h) == replace(replace(replace(strip(lower(h)), <<" ">>, <<>>),
                                         <<"_">>, <<>>), <<"-">>, <<>>)
        normalized_headers == SelectSeq([i \in 1..Len(headers) |->
                                             [given |-> headers[i],
                                              text |-> normalized(headers[i])]],
                                        LAMBDA e : e.given # <<>>)
        RECURSIVE insert(_, _)
        insert(sorted, t) ==
            IF sorted = <<>> THEN <<t>>
            ELSE IF str_lt(t, sorted[1]) THEN <<t>> \o sorted
            ELSE <<sorted[1]>> \o insert(Tail(sorted), t)
        sorted_headers[i \in 0..Len(normalized_headers)] ==
            IF i = 0 THEN <<>> ELSE insert(sorted_headers[i - 1], normalized_headers[i].text)
        RECURSIVE join(_)
        join(strs) == IF strs = <<>> THEN <<>>
                      ELSE IF Len(strs) = 1 THEN strs[1]
                      ELSE strs[1] \o <<"|">> \o join(Tail(strs))
    IN  [md5 |-> join(sorted_headers[Len(normalized_headers)])]

\* The rows the loop over the items of the argument column_mappings inserts, in its order:
\* a target that is empty or one of 'unknown', 'ignore' and the two
\* Japanese words is skipped; a target that starts with 'custom:' loses
\* every 'custom:' and is stripped, and is skipped when nothing is left.
mappings_to_insert(mappings) ==
    LET target_field(target) ==
            IF Len(target) >= 7 /\ SubSeq(target, 1, 7) = <<"c", "u", "s", "t", "o", "m", ":">>
            THEN strip(replace(target, <<"c", "u", "s", "t", "o", "m", ":">>, <<>>))
            ELSE target
        kept(m) == /\ m[2] # <<>>
                   /\ m[2] \notin {<<"u", "n", "k", "n", "o", "w", "n">>, <<"i", "g", "n", "o", "r", "e">>, <<"U+4E0D", "U+660E">>, <<"U+7121", "U+8996", "U+3059", "U+308B">>}
                   /\ target_field(m[2]) # <<>>
        items == SelectSeq(mappings, kept)
    IN  [i \in 1..Len(items) |->
            [source_header |-> items[i][1], target_field |-> target_field(items[i][2])]]

\* The handler is invoked by requests that run at once against the same
\* tables; each call of the client, .execute(), is one step.
InitStore ==
    /\ StoreIdle
    /\ environ \in {[LAMBDA_DEBUG_ECHO |-> "", DEFAULT_FORMAT |-> <<>>]}
    /\ handler = "save_format_profile"
    /\ pc = "call"
    /\ event = NoEvent
    /\ data = Unparseable
    /\ fmt = <<>>
    /\ requested_analysis_type = <<>>
    /\ sales = <<>>
    /\ columns = <<>>
    /\ detected_data_type = ""
    /\ is_compatible = TRUE
    /\ error_message = <<>>
    /\ data_type = ""
    /\ stats = compute_stats(<<>>)
    /\ prompt = NoPrompt
    /\ outcome = NoOutcome
    /\ body = NoBodyYet
    /\ response = NoResponse
    /\ raised = ""
    /\ stages = <<>>
    /\ modelCalls = 0

\* save_format_profile(supabase, tenant_id, headers, column_mappings) is
\* called: the signature is computed (line 166).
CallSave ==
    \E s \in Savers :
       /\ saves[s].pc \in {"idle", "returned"}
       /\ LET total[i \in 0..MaxSavers] == IF i = 0 THEN 0 ELSE total[i - 1] + saves[i].calls
          IN  total[MaxSavers] < MaxSaves
       /\ \E tenant_id \in {<<"d", "e", "f", "a", "u", "l", "t">>, <<"t", "2">>},
             headers \in { <<<<"d", "a", "t", "e">>, <<"s", "a", "l", "e", "s">>>>, <<<<"S", "a", "l", "e", "s", "_">>, <<>>, <<" ", "D", "A", "T", "E">>>>, <<<<"i", "t", "e", "m">>>> },
             mappings \in { << <<<<"d", "a", "t", "e">>, <<"d", "a", "t", "e">>>>, <<<<"s", "a", "l", "e", "s">>, <<"i", "g", "n", "o", "r", "e">>>> >>,
                            << <<<<"s", "a", "l", "e", "s">>, <<"c", "u", "s", "t", "o", "m", ":", " ", "a", "m", "o", "u", "n", "t">>>>, <<<<"d", "a", "t", "e">>, <<"c", "u", "s", "t", "o", "m", ":">>>> >>,
                            << <<<<"d", "a", "t", "e">>, <<"d", "a", "y">>>>, <<<<"s", "a", "l", "e", "s">>, <<"s", "a", "l", "e", "s">>>> >>,
                            << <<<<"s", "a", "l", "e", "s">>, <<"U+4E0D", "U+660E">>>> >> } :
             saves' = [saves EXCEPT ![s] =
                          [pc |-> "select", calls |-> @.calls + 1, tenant_id |-> tenant_id,
                           format_signature |-> generate_format_signature(headers),
                           mappings |-> mappings, todo |-> mappings_to_insert(mappings),
                           profile_id |-> 0, saved_count |-> 0, returns |-> FALSE]]
       /\ UNCHANGED <<format_profiles, column_mappings, profile_meta, environ, handler, pc, event, locals,
                    response, raised, stages, modelCalls>>

\* Lines 169-175: the select of the profiles of the tenant and signature;
\* profile_id is the id of the first row found.
SelectExisting ==
    \E s \in Savers :
       /\ saves[s].pc = "select"
       /\ LET existing == {i \in 1..Len(format_profiles) :
                             /\ format_profiles[i].tenant_id = saves[s].tenant_id
                             /\ format_profiles[i].format_signature = saves[s].format_signature}
          IN  saves' = [saves EXCEPT ![s].pc = IF existing # {} THEN "delete" ELSE "insert",
                                     ![s].profile_id =
                                         IF existing # {}
                                         THEN CHOOSE i \in existing : \A j \in existing : i <= j
                                         ELSE 0]
       /\ UNCHANGED <<format_profiles, column_mappings, profile_meta, environ, handler, pc, event, locals,
                    response, raised, stages, modelCalls>>

\* Lines 179-181: the mappings of the profile are deleted.
DeleteMappings ==
    \E s \in Savers :
       /\ saves[s].pc = "delete"
       /\ column_mappings' =
              [m \in {x \in DOMAIN column_mappings : x.profile_id # saves[s].profile_id} |->
                  column_mappings[m]]
       /\ saves' = [saves EXCEPT ![s].pc = "mappings"]
       /\ UNCHANGED <<format_profiles, profile_meta, environ, handler, pc, event, locals,
                    response, raised, stages, modelCalls>>

\* Lines 184-199: the profile is inserted.  Whether the table refuses a
\* second row of the same tenant and signature is decided by its
\* declaration, which is outside the source: the insert either adds the
\* row, or raises and the except clause of line 240 returns False.
InsertProfile ==
    \E s \in Savers :
       /\ saves[s].pc = "insert"
       /\ \E refused \in {FALSE} \cup
                         {\E i \in 1..Len(format_profiles) :
                             /\ format_profiles[i].tenant_id = saves[s].tenant_id
                             /\ format_profiles[i].format_signature = saves[s].format_signature} :
             IF refused
             THEN /\ saves' = [saves EXCEPT ![s].pc = "returned", ![s].returns = FALSE]
                  /\ UNCHANGED format_profiles
             ELSE /\ format_profiles' =
                         Append(format_profiles,
                                [id |-> Len(format_profiles) + 1,
                                 tenant_id |-> saves[s].tenant_id,
                                 format_signature |-> saves[s].format_signature])
                  /\ saves' = [saves EXCEPT ![s].pc = "mappings",
                                            ![s].profile_id = Len(format_profiles) + 1]
       /\ UNCHANGED <<column_mappings, profile_meta, environ, handler, pc, event, locals,
                    response, raised, stages, modelCalls>>

\* Lines 203-222: the next mapping of the loop is inserted.
InsertMapping ==
    \E s \in Savers :
       /\ saves[s].pc = "mappings"
       /\ saves[s].todo # <<>>
       /\ column_mappings' =
              column_mappings (+)
              SetToBag({[profile_id |-> saves[s].profile_id,
                         source_header |-> saves[s].todo[1].source_header,
                         target_field |-> saves[s].todo[1].target_field]})
       /\ saves' = [saves EXCEPT ![s].todo = Tail(@), ![s].saved_count = @ + 1]
       /\ UNCHANGED <<format_profiles, profile_meta, environ, handler, pc, event, locals,
                    response, raised, stages, modelCalls>>

\* Lines 227-238: after the loop the metadata of the profile is upserted
\* and the save returns True.
UpsertMeta ==
    \E s \in Savers :
       /\ saves[s].pc = "mappings"
       /\ saves[s].todo = <<>>
       /\ profile_meta' =
              [p \in DOMAIN profile_meta \cup {saves[s].profile_id} |->
                  IF p = saves[s].profile_id
                  THEN [tenant_id |-> saves[s].tenant_id, usage_count |-> 1,
                        column_count |-> saves[s].saved_count]
                  ELSE profile_meta[p]]
       /\ saves' = [saves EXCEPT ![s].pc = "returned", ![s].returns = TRUE]
       /\ UNCHANGED <<format_profiles, column_mappings, environ, handler, pc, event, locals,
                    response, raised, stages, modelCalls>>

SpecStore ==
    InitStore /\ [][CallSave \/ SelectExisting \/ DeleteMappings \/ InsertProfile
                    \/ InsertMapping \/ UpsertMeta]_vars

\* ------------------------------------------------------------- claims

Main == handler = "sap-claude-handler"

\* The invocation of the main handler is over: it returned or raised.
Ended == Main /\ pc \in {"responded", "raised"}

InStages(s) == \E i \in 1..Len(stages) : stages[i] = s

EchoOff == early_echo(event, environ) = NoResponse

\* The method of the request as the main handler reads it.
RequestMethod == IF event.rcMethod # "" THEN event.rcMethod ELSE event.httpMethod

AllowOrigin == <<"Access-Control-Allow-Origin", "*">>

\* C1 (as claimed): when the model call of a tabular request raised, the
\* handler still returns 200 and summary_ai is a non-empty text made from
\* the statistics, not from the exception.
C1_FallbackFromStatistics ==
    (Ended /\ InStages("MODEL_CALLED") /\ InStages("CLASSIFIED") /\ outcome.raised)
        => /\ pc = "responded"
           /\ response.statusCode = 200
           /\ response.body.response.summary_ai # <<>>
           /\ response.body.response.summary_ai # bedrock_error(outcome.text)

\* C2 (as claimed): the main handler never ends in an exception and never
\* answers with a status other than 200, 400 or 405.
C2_OnlyBadRequestOrMethod ==
    Main => /\ pc # "raised"
            /\ response.statusCode \in {0, 200, 400, 405}

FullPath ==
    <<"RECEIVED", "VALIDATED", "CLASSIFIED", "PROMPTED", "MODEL_CALLED", "SHAPED", "RESPONDED">>
ShortPath == <<"RECEIVED", "VALIDATED", "RESPONDED">>
EchoPath == <<"RECEIVED", "RESPONDED">>
ImagePath == <<"RECEIVED", "VALIDATED", "PROMPTED", "MODEL_CALLED", "SHAPED", "RESPONDED">>

IsPrefix(s, t) == Len(s) <= Len(t) /\ SubSeq(t, 1, Len(s)) = s

\* C3 (as claimed): a request that is answered went through the seven
\* stages in order, or from VALIDATED straight to RESPONDED with a 400, a
\* 405 or the answer to OPTIONS, and then without a model call.
C3_StagesAsClaimed ==
    (Main /\ pc = "responded")
        => \/ stages = FullPath
           \/ /\ stages = ShortPath
              /\ modelCalls = 0
              /\ \/ response.statusCode \in {400, 405}
                 \/ response.statusCode = 200 /\ RequestMethod = "OPTIONS"

\* C3 (amended): at every moment the stages gone through are the start of
\* one of four paths: the seven stages in order; RECEIVED, VALIDATED,
\* RESPONDED; RECEIVED, RESPONDED; or the seven stages without
\* CLASSIFIED.  An answered request has gone through a whole path: the
\* full one with exactly one model call; the one without CLASSIFIED only
\* in the image branch, with exactly one model call; RECEIVED, RESPONDED
\* only for the debug echo; RECEIVED, VALIDATED, RESPONDED without a model
\* call, for a 400, a 405, the answer to OPTIONS, or the 200 of the image
\* branch when no text could be extracted.
C3_StageOrder ==
    Main =>
        /\ \E p \in {FullPath, ShortPath, EchoPath, ImagePath} : IsPrefix(stages, p)
        /\ pc = "responded" =>
              \/ stages = FullPath /\ modelCalls = 1 /\ response.statusCode = 200
              \/ /\ stages = ImagePath /\ modelCalls = 1 /\ response.statusCode = 200
                 /\ response.body.message = "Image analysis completed"
              \/ stages = EchoPath /\ modelCalls = 0 /\ response.body.message = "DEBUG"
              \/ /\ stages = ShortPath /\ modelCalls = 0
                 /\ \/ response.statusCode \in {400, 405}
                    \/ response.statusCode = 200 /\ RequestMethod = "OPTIONS"
                    \/ /\ response.statusCode = 200
                       /\ response.body.message = "Image analysis completed"
        /\ pc # "responded" => ~InStages("RESPONDED")

\* C3 witness: a tabular request whose model call failed is answered after
\* the seven stages.
C3_Witness == Main /\ pc = "responded" /\ stages = FullPath /\ outcome.raised

\* C4 (as claimed): whatever the query string and the body, OPTIONS is
\* answered 200 with the acknowledgement and any method but OPTIONS and
\* POST is answered 405.
C4_DispatchAsClaimed ==
    Ended =>
        /\ RequestMethod = "OPTIONS" =>
              /\ pc = "responded" /\ response.statusCode = 200
              /\ response.body = [message |-> "", ok |-> TRUE]
        /\ RequestMethod \notin {"OPTIONS", "POST"} =>
              pc = "responded" /\ response.statusCode = 405

\* C4 (amended): when the debug echo is off, OPTIONS is answered 200 with
\* the acknowledgement and without analysis, any method but OPTIONS and
\* POST (a missing one too) is answered 405 without analysis, and POST is
\* never answered by the dispatch; when the debug echo is on, every method
\* is answered 200 with the debug body.
C4_MethodDispatch ==
    Ended =>
        /\ (EchoOff /\ RequestMethod = "OPTIONS") =>
              /\ pc = "responded" /\ response.statusCode = 200
              /\ response.body = [message |-> "", ok |-> TRUE]
              /\ modelCalls = 0 /\ ~InStages("CLASSIFIED")
        /\ (EchoOff /\ RequestMethod \notin {"OPTIONS", "POST"}) =>
              /\ pc = "responded" /\ response.statusCode = 405
              /\ modelCalls = 0 /\ ~InStages("CLASSIFIED")
        /\ (EchoOff /\ RequestMethod = "POST") =>
              /\ response.statusCode # 405
              /\ response.body # [message |-> "", ok |-> TRUE]
        /\ ~EchoOff =>
              /\ pc = "responded" /\ response.statusCode = 200
              /\ response.body.message = "DEBUG"

\* C4 witness: with the echo off an OPTIONS request that names POST in
\* httpMethod is acknowledged.
C4_Witness ==
    /\ Ended /\ EchoOff /\ event.rcMethod = "OPTIONS" /\ event.httpMethod = "POST"
    /\ response.statusCode = 200

\* The body of the request is a text that is no JSON text: as it stands
\* when the request is not flagged as base64 encoded, decoded when it is.
BodyNotJson ==
    /\ event.body.text = "text"
    /\ \/ event.body.doc = Unparseable
       \/ event.body.wire = "base64" /\ ~event.isBase64Encoded

\* C5 (as claimed): a POST request whose body json.loads rejects, the empty
\* text among them, is answered 400 with INVALID_JSON, without
\* classification, aggregation or model call.
C5_InvalidJsonAsClaimed ==
    (Ended /\ RequestMethod = "POST" /\ (BodyNotJson \/ event.body.text = "empty"))
        => /\ pc = "responded"
           /\ response.statusCode = 400
           /\ response.body.message = "INVALID_JSON"
           /\ modelCalls = 0
           /\ ~InStages("CLASSIFIED")

\* C5 (amended): when the debug echo is off, a POST request with a
\* non-empty body that is no JSON text (after base64 decoding when the
\* request is flagged as base64 encoded) is answered 400 with the message
\* INVALID_JSON, and for such a request nothing is classified, no
\* statistics are computed and the model is not called; a missing or empty
\* body of a request not flagged as base64 encoded is read as the empty
\* object and is not refused as invalid JSON.
C5_InvalidJson ==
    /\ (Main /\ EchoOff /\ RequestMethod = "POST" /\ BodyNotJson) =>
          /\ modelCalls = 0
          /\ ~InStages("CLASSIFIED")
          /\ pc \in {"echo", "method", "parse", "responded"}
          /\ stats = compute_stats(<<>>)
          /\ pc = "responded" =>
                /\ response.statusCode = 400
                /\ response.body.message = "INVALID_JSON"
    /\ (Ended /\ EchoOff /\ RequestMethod = "POST" /\ ~event.isBase64Encoded
           /\ event.body.text \in {"none", "empty"}) =>
          response.body.message # "INVALID_JSON"

\* C5 witness: a base64 text that decodes to something that is no JSON
\* text was refused.
C5_Witness ==
    /\ Ended /\ EchoOff /\ RequestMethod = "POST"
    /\ event.isBase64Encoded /\ event.body = Body("base64", Unparseable)
    /\ response.statusCode = 400

\* The parsed body holds none of the fields the rows are read from.
NoRows ==
    /\ data.fields.salesData = Absent /\ data.fields.csv = Absent
    /\ data.fields.rows = Absent /\ data.fields.data = Absent

\* C6 (as claimed): a POST request whose body is a JSON object and whose
\* inputs were read is answered 400 without a model call when it holds no
\* data: no rows field in tabular mode, no or empty imageData in image
\* mode.
C6_MissingDataRefused ==
    (Ended /\ EchoOff /\ RequestMethod = "POST" /\ data.isObject /\ InStages("VALIDATED")
       /\ IF image_branch THEN ~truthy(data.fields.imageData) ELSE NoRows)
        => /\ pc = "responded"
           /\ response.statusCode = 400
           /\ modelCalls = 0

\* C7 (as claimed): every response of every handler carries
\* Access-Control-Allow-Origin: *.
C7_AllowOriginEverywhere ==
    pc = "responded" => AllowOrigin \in response.headers

\* The intents a request can name, known to the matrix or not.
Intents == {compatibility_matrix[i].intent : i \in 1..Len(compatibility_matrix)}
           \cup {<<>>, <<"o", "t", "h", "e", "r">>}

\* C8: validate_analysis_compatibility accepts every pair of a detected
\* category and a requested intent (unknown intent, allowed category and
\* mismatch alike), and the handler never holds a refusal and never
\* answers DATA_TYPE_MISMATCH.
C8_AlwaysAccepted ==
    /\ \A d \in Categories, r \in Intents : validate_analysis_compatibility(d, r)[1]
    /\ Main => /\ is_compatible
               /\ response.body.message # "DATA_TYPE_MISMATCH"
               /\ (InStages("CLASSIFIED") /\ pc = "responded") => InStages("MODEL_CALLED")

\* The requested intent is known and does not allow the detected category.
Mismatch ==
    /\ KnownIntent(requested_analysis_type)
    /\ ~InSeq(detected_data_type, all_allowed(ConfigOf(requested_analysis_type)))

\* C8 witness: the handler went on to the prompt although the requested
\* intent does not allow the detected category.
C8_Witness == Main /\ pc = "prompt" /\ Mismatch /\ is_compatible

\* C9 (as claimed): on a mismatch the validator accepts and hands the
\* caller a non-empty message.
C9_MismatchMessage ==
    (Main /\ pc = "prompt" /\ Mismatch)
        => /\ is_compatible
           /\ error_message # <<>>

\* Every category score is zero after keyword and sample scoring.
AllScoresZero == \A c \in Categories : scores(columns, sales)[c] = 0

\* The sample rows are records.
SampleOfRecords == \A i \in 1..Len(sales) : sales[i].isRecord

\* C10 (as claimed): called with columns and sample records,
\* _identify_data_type returns, and what it returns is one of the six
\* categories, financial_data for no columns and when every score is
\* zero.
C10_DefaultAndRange ==
    (handler = "_identify_data_type" /\ pc # "call" /\ SampleOfRecords)
        => /\ pc = "returned"
           /\ detected_data_type \in Categories
           /\ columns = <<>> => detected_data_type = "financial_data"
           /\ AllScoresZero => detected_data_type = "financial_data"

\* The category c holds the greatest score and no other category holds it.
UniqueMaximum(sc, c) == \A d \in Categories \ {c} : sc[d] < sc[c]

\* C11: when a column named by a strong keyword of a category X is put
\* into the column list (anywhere in it) and the sample stays as it is,
\* the score of X does not get lower, and when X held the unique greatest
\* score before, the call with the longer list returns X.
C11_Monotone ==
    [][ AddStrongKeyword =>
          \A X \in Categories :
             \A i \in 1..Len(StrongKeywords(X)), p \in 1..(Len(columns) + 1) :
                columns' = WithColumn(columns, StrongKeywords(X)[i], p) =>
                   /\ scores(columns', sales)[X] >= scores(columns, sales)[X]
                   /\ UniqueMaximum(scores(columns, sales), X)
                          => identify_data_type(columns', sales) = X ]_vars

\* C11 witness: the call with Campaign returned marketing_data, which held
\* the unique greatest score, the strong keyword of marketing_data that
\* also scores for sales_data and customer_data was added, and the second
\* call returned.
C11_Witness ==
    /\ handler = "_identify_data_type" /\ pc = "returned"
    /\ Len(columns) = 2 /\ columns[1] = <<"C", "a", "m", "p", "a", "i", "g", "n">>
    /\ \E i \in 1..Len(StrongKeywords("marketing_data")) :
          columns[2] = StrongKeywords("marketing_data")[i]
    /\ UniqueMaximum(scores(<<<<"C", "a", "m", "p", "a", "i", "g", "n">>>>, sales), "marketing_data")
    /\ scores(columns, sales)["sales_data"] > scores(<<<<"C", "a", "m", "p", "a", "i", "g", "n">>>>, sales)["sales_data"]
    /\ scores(columns, sales)["customer_data"] > scores(<<<<"C", "a", "m", "p", "a", "i", "g", "n">>>>, sales)["customer_data"]
    /\ detected_data_type = "marketing_data"

\* The columns of a staff table: employee id, department, salary, overtime.
StaffColumns == << <<"U+793E", "U+54E1", "I", "D">>, <<"U+90E8", "U+7F72">>, <<"U+7D66", "U+4E0E">>, <<"U+6B8B", "U+696D", "U+6642", "U+9593">> >>

\* C12: a call of the classifier that returns gives a category whose additive
\* score (3 per strong keyword and the category's weight per medium keyword,
\* each keyword counted once when it is found in the joined names, plus the
\* bonuses of the first sample row) is the greatest; and the columns of a
\* staff table, which name only strong keywords of the staff category, give
\* hr_data.
C12_ArgMaxAndStaffTable ==
    (handler = "_identify_data_type" /\ pc = "returned") =>
        /\ \A c \in Categories :
               scores(columns, sales)[c] <= scores(columns, sales)[detected_data_type]
        /\ columns = StaffColumns => detected_data_type = "hr_data"

\* The invocation is one of the v2 sales handler.
V2 == handler = "sap-claude-handler-v2"

\* The v2 handler answered with the fallback of generate_fallback_response.
V2Fallback ==
    /\ V2 /\ pc = "responded" /\ response.statusCode = 200
    /\ "warnings" \in DOMAIN response.body.response

\* C13: the statistics of an empty row list are total_rows 0, total_sales 0,
\* avg_row_sales 0, no top products and no time series; no average is ever
\* the result of a division by zero, whatever the rows; and the fallback of
\* the v2 handler holds an average exactly when the row count is positive,
\* divided by that count.
C13_ZeroRows ==
    /\ stats.avg_row_sales.den # 0
    /\ (Main /\ InStages("CLASSIFIED") /\ InStages("PROMPTED") /\ sales = <<>>)
           => stats = [total_rows |-> 0, total_sales |-> Fin(0),
                       avg_row_sales |-> Quotient(Fin(0), 1),
                       top_products |-> <<>>, timeseries |-> <<>>]
    /\ (Main /\ InStages("CLASSIFIED") /\ InStages("PROMPTED") /\ sales # <<>>)
           => stats.avg_row_sales.den = Len(sales)
    /\ V2Fallback =>
           LET avg_order == response.body.response.kpis.avg_order
           IN  /\ avg_order.none <=> response.body.dataProcessed = 0
               /\ avg_order.value.den # 0
               /\ ~avg_order.none => avg_order.value.den = response.body.dataProcessed

\* C13 witness: a request without rows was answered after the statistics of
\* the empty list were computed.
C13_Witness ==
    /\ Main /\ pc = "responded" /\ InStages("CLASSIFIED") /\ InStages("PROMPTED")
    /\ sales = <<>>
    /\ stats.total_rows = 0 /\ stats.avg_row_sales = Quotient(Fin(0), 1)

\* The rows of one day: the amounts "1,000" with the yen sign of the amount
\* and "500".
RowsOfOneDay ==
    << Record(<< <<<<"d", "a", "t", "e">>, <<"2", "0", "2", "4", "-", "0", "1", "-", "0", "1">>>>, <<<<"p", "r", "o", "d", "u", "c", "t">>, <<"X">>>>, <<<<"s", "a", "l", "e", "s">>, <<"1", ",", "0", "0", "0", "U+5186">>>> >>),
       Record(<< <<<<"d", "a", "t", "e">>, <<"2", "0", "2", "4", "-", "0", "1", "-", "0", "1">>>>, <<<<"p", "r", "o", "d", "u", "c", "t">>, <<"Y">>>>, <<<<"s", "a", "l", "e", "s">>, <<"5", "0", "0">>>> >>) >>

\* C14: after the statistics of a non-empty row list, total_rows is the
\* number of rows, avg_row_sales is total_sales divided by total_rows, and
\* total_sales is the sum of the amounts with separators and currency signs
\* taken off: the amounts "1,000" yen and "500" give the total 1500 and the
\* average 750.
C14_TotalAndAverage ==
    (Main /\ InStages("CLASSIFIED") /\ InStages("PROMPTED") /\ sales # <<>>)
        => /\ stats.total_rows = Len(sales)
           /\ stats.avg_row_sales = Quotient(stats.total_sales, stats.total_rows)
           /\ sales = RowsOfOneDay
                 => /\ stats.total_sales = Fin(1500)
                    /\ stats.avg_row_sales = Quotient(Fin(1500), 2)

\* The per-label totals of the rows, in the order the labels are met.
LabelTotals == by_product_of(sales, detect_columns(sales).sales, detect_columns(sales).product)

\* The top products are at most TopN entries of the per-label totals with
\* distinct labels, none of them less than a total left out, in falling
\* order of the amount, entries of equal amount in the order they were met.
TopProductsAsClaimed(tp) ==
    LET place(e) == CHOOSE i \in 1..Len(LabelTotals) : LabelTotals[i] = e
    IN  /\ Len(tp) = IF Len(LabelTotals) < TopN THEN Len(LabelTotals) ELSE TopN
        /\ \A i \in 1..Len(tp) : \E k \in 1..Len(LabelTotals) : LabelTotals[k] = tp[i]
        /\ \A i, j \in 1..Len(tp) : tp[i][1] = tp[j][1] => i = j
        /\ \A i, j \in 1..Len(tp) : i < j => float_le(tp[j][2], tp[i][2])
        /\ \A i, j \in 1..Len(tp) : (i < j /\ tp[i][2] = tp[j][2]) => place(tp[i]) < place(tp[j])
        /\ \A k \in 1..Len(LabelTotals) :
              (\A i \in 1..Len(tp) : tp[i] # LabelTotals[k])
                  => \A i \in 1..Len(tp) : float_le(LabelTotals[k][2], tp[i][2])

\* C15: top_products holds at most five entries with distinct labels, in
\* falling order of the amount, which are the five greatest per-label
\* totals; entries of equal amount keep the order in which their labels
\* were met.
C15_TopProducts ==
    (handler = "_compute_stats" /\ pc = "returned") => TopProductsAsClaimed(stats.top_products)

\* The rows of the request of the invocation, read from the event alone.
RowsOfRequest == sales_of(raw_of(event).doc.fields)

ModelStages == Cardinality({i \in 1..Len(stages) : stages[i] = "MODEL_CALLED"})

\* C17: the main handler calls the model at most once for a request, once
\* for a tabular request that reached the model stage, and never again after
\* a call that failed: the request then goes on to the shaping of the
\* fallback and to the response.
C17_OneCallNoRetry ==
    Main =>
        /\ modelCalls <= 1 /\ ModelStages <= 1
        /\ (InStages("CLASSIFIED") /\ InStages("MODEL_CALLED")) => modelCalls = 1
        /\ (InStages("MODEL_CALLED") /\ outcome.raised) =>
              IF InStages("CLASSIFIED")
              THEN /\ \E k \in 5..7 : stages = SubSeq(FullPath, 1, k)
                   /\ pc \in {"shape", "return", "responded"}
                   /\ pc = "responded" <=> stages = FullPath
              ELSE stages = ImagePath /\ pc = "responded"

\* The body the main handler returns for the request of the invocation when
\* the model call succeeds with the plain reply "sorry".
BodyAfterPlainReply ==
    final_body(fmt, Len(sales), stats,
               shaped(fmt, [raised |-> FALSE, text |-> <<"s", "o", "r", "r", "y">>],
                      [total_sales |-> stats.total_sales, top_products |-> stats.top_products],
                      stats.timeseries))

\* C18: a 200 response after a failed model call differs from the response
\* of the same request after a call that succeeded in a field other than
\* the summary text: in the main handler, and in the v2 handler, where the
\* message and the warnings of the fallback mark it.
C18_FailureMarked ==
    /\ (Main /\ pc = "responded" /\ InStages("CLASSIFIED") /\ InStages("MODEL_CALLED")
          /\ outcome.raised)
          => /\ response.statusCode = 200
             /\ [response.body EXCEPT !.response.summary_ai = <<"s", "o", "r", "r", "y">>] # BodyAfterPlainReply
    /\ (V2 /\ pc = "responded" /\ modelCalls = 1 /\ outcome.raised)
          => /\ response.statusCode = 200
             /\ response.body.message = "<analysis failed, basic totals shown>"
             /\ response.body.response.warnings # <<>>

\* The place of a category in the order hr, marketing, sales, financial,
\* inventory, customer.
PlaceOf(c) ==
    CHOOSE i \in 1..6 :
        <<"hr_data", "marketing_data", "sales_data", "financial_data",
          "inventory_data", "customer_data">>[i] = c

\* Two or more categories hold the greatest score, which is positive.
TieAtMaximum(sc) ==
    \E c, d \in Categories :
        /\ c # d /\ sc[c] = sc[d] /\ sc[c] > 0
        /\ \A e \in Categories : sc[e] <= sc[c]

\* C19: when two or more categories tie at the greatest score and it is
\* positive, the call returns the one of them that comes first in the order
\* hr, marketing, sales, financial, inventory, customer.
C19_TieOrder ==
    (handler = "_identify_data_type" /\ pc = "returned" /\ columns # <<>>
       /\ TieAtMaximum(scores(columns, sales)))
        => LET sc == scores(columns, sales)
           IN  /\ \A e \in Categories : sc[e] <= sc[detected_data_type]
               /\ \A e \in Categories :
                      sc[e] = sc[detected_data_type] => PlaceOf(detected_data_type) <= PlaceOf(e)

\* C19 witness: for the one column region the sales and another category
\* later in the order tie at the greatest score, and sales_data is returned.
C19_Witness ==
    /\ handler = "_identify_data_type" /\ pc = "returned"
    /\ columns = << <<"r", "e", "g", "i", "o", "n">> >> /\ sales = <<>>
    /\ TieAtMaximum(scores(columns, sales))
    /\ \E e \in Categories :
          /\ PlaceOf(e) > PlaceOf("sales_data")
          /\ scores(columns, sales)[e] = scores(columns, sales)["sales_data"]
    /\ detected_data_type = "sales_data"

\* C20: for the json format and a model call that returned a text, a reply
\* that gives no JSON object, neither parsed as it is after the fences are
\* taken off nor from its first "{" to its last "}" (a reply that parses to
\* an array among them), is wrapped as the overview: summary_ai is the raw
\* reply, and the response is not reported as an error of the model.
C20_RawReplyWrapped ==
    (Main /\ InStages("CLASSIFIED") /\ InStages("SHAPED") /\ ~outcome.raised
       /\ fmt = <<"j", "s", "o", "n">>)
        => LET ai_json == ai_json_of(outcome.text)
           IN  /\ body.response.summary_ai # bedrock_error(<<"<no attribute 'get'>">>)
               /\ (~ai_json.isObject \/ ai_json.cells = << <<"overview", outcome.text>> >>)
                     => body.response.summary_ai = outcome.text

\* The values the main handler takes from the statistics for the response.
StatKpis == [total_sales |-> stats.total_sales, top_products |-> stats.top_products]

\* The parsed reply of a tabular json request holds the key k.
Supplies(k) ==
    /\ ~outcome.raised
    /\ ai_json_of(outcome.text).isObject
    /\ \E i \in 1..Len(ai_json_of(outcome.text).cells) : ai_json_of(outcome.text).cells[i][1] = k

\* A tabular request of the main handler answered in the json format.
JsonAnswered ==
    /\ Main /\ pc = "responded" /\ stages = FullPath
    /\ fmt = <<"j", "s", "o", "n">>
    /\ response.statusCode = 200

\* C21: in the json format data_analysis.kpis and data_analysis.trend of the
\* response are the total with the top products and the time series of the
\* statistics whenever the call failed, the reply gave no object or the
\* object holds no such key; where the object holds the key its value is
\* returned.
C21_KpisAndTrendDefaults ==
    JsonAnswered =>
        LET da == response.body.response.data_analysis
            ai_json == ai_json_of(outcome.text)
        IN  /\ da.kpis = IF Supplies("kpis") THEN get(ai_json, "kpis", StatKpis) ELSE StatKpis
            /\ da.trend = IF Supplies("trend") THEN get(ai_json, "trend", stats.timeseries)
                          ELSE stats.timeseries

\* A reply that parsed to an object without kpis and trend was answered
\* with the statistics of rows whose total is not zero.
C21_Witness ==
    /\ JsonAnswered
    /\ ~outcome.raised /\ ai_json_of(outcome.text).isObject
    /\ ~Supplies("kpis") /\ ~Supplies("trend")
    /\ stats.total_sales # Fin(0)
    /\ stats.timeseries # <<>>
    /\ response.body.response.data_analysis.kpis = StatKpis

\* A tabular request of the main handler answered in the markdown or the
\* text format.
PlainAnswered ==
    /\ Main /\ pc = "responded" /\ stages = FullPath
    /\ fmt \in {<<"m", "a", "r", "k", "d", "o", "w", "n">>, <<"t", "e", "x", "t">>}

\* C22: in the markdown and text formats the reply of a model call that
\* returned is summary_ai as it is, fences and JSON included, and the response
\* holds message, format and a response object with summary_ai alone (the
\* constant model field is not part of the model).
C22_PlainPassThrough ==
    PlainAnswered =>
        /\ response.statusCode = 200
        /\ DOMAIN response.body = {"message", "format", "response"}
        /\ response.body.message = "OK"
        /\ response.body.format = fmt
        /\ DOMAIN response.body.response = {"summary_ai"}
        /\ ~outcome.raised => response.body.response.summary_ai = outcome.text

\* A fenced JSON reply was answered in the markdown or the text format.
C22_Witness ==
    /\ PlainAnswered
    /\ ~outcome.raised
    /\ startswith(outcome.text, <<"U+0060", "U+0060", "U+0060">>)
    /\ response.body.response.summary_ai = outcome.text

\* _compute_stats returned the statistics of rows.
StatsReturned == handler = "_compute_stats" /\ pc = "returned" /\ sales # <<>>

\* The day key of a row as the claim words it: the value of the date column
\* dcol, trimmed, every "/" turned into "-", cut to 10 characters.
DayKey(r, dcol) ==
    LET v == strip(get(r, dcol, <<>>))
        w == [i \in 1..Len(v) |-> IF v[i] = "/" THEN "-" ELSE v[i]]
    IN  SubSeq(w, 1, IF Len(w) < 10 THEN Len(w) ELSE 10)

\* The sum, in row order, of the amounts of the first n rows whose day key
\* is day.
RECURSIVE DaySum(_, _, _, _, _)
DaySum(rows, n, day, dcol, scol) ==
    IF n = 0 THEN Fin(0)
    ELSE IF DayKey(rows[n], dcol) = day
         THEN float_add(DaySum(rows, n - 1, day, dcol, scol),
                        IF scol = <<>> THEN Fin(0) ELSE to_number(get(rows[n], scol, <<"0">>)))
    ELSE DaySum(rows, n - 1, day, dcol, scol)

\* C23: the time series holds one entry for every non-empty day key of the
\* rows and no other, in strictly ascending order of the day, each with the
\* sum of the amounts of the rows of that day; it is empty when no date
\* column is bound.
C23_TimeSeries ==
    StatsReturned =>
        LET ts == stats.timeseries
            dcol == detect_columns(sales).date
            scol == detect_columns(sales).sales
            days == IF dcol = <<>> THEN {}
                    ELSE {DayKey(sales[i], dcol) : i \in 1..Len(sales)} \ {<<>>}
        IN  /\ {ts[i][1] : i \in 1..Len(ts)} = days
            /\ \A i, j \in 1..Len(ts) : i < j => str_lt(ts[i][1], ts[j][1])
            /\ \A i \in 1..Len(ts) : ts[i][2] = DaySum(sales, Len(sales), ts[i][1], dcol, scol)

\* Rows of two days, one of them given twice in different forms, came back
\* as two entries.
C23_Witness ==
    /\ StatsReturned
    /\ Len(sales) = 3
    /\ stats.timeseries = << <<<<"2", "0", "2", "4", "-", "0", "1", "-", "0", "1">>, Fin(3)>>, <<<<"2", "0", "2", "4", "-", "0", "1", "-", "0", "2">>, Fin(3)>> >>

\* The first key of a row that holds one of the tokens, 0 when none does.
FirstKeyWith(names, tokens) ==
    LET hits == {i \in 1..Len(names) :
                   \E k \in 1..Len(tokens) :
                       Contains(IF tokens[k].lowered THEN lower(names[i]) ELSE names[i],
                                tokens[k].text)}
    IN  IF hits = {} THEN 0 ELSE CHOOSE i \in hits : \A j \in hits : i <= j

\* The tokens of a role, each read in the name as it is or in its lower case.
RoleTokens(role) ==
    LET asis(s) == [text |-> s, lowered |-> FALSE]
        low(s) == [text |-> s, lowered |-> TRUE]
    IN  IF role = "date" THEN << asis(<<"U+00E6", "U+2014", "U+00A5">>), low(<<"d", "a", "t", "e">>) >>
        ELSE IF role = "sales"
        THEN << asis(<<"U+00E5", "U+00A3", "U+00B2">>), asis(<<"U+00E9", "U+2021", "U+2018", "U+00E9", "U+00A1">>), low(<<"a", "m", "o", "u", "n", "t">>), low(<<"s", "a", "l", "e", "s">>),
                low(<<"t", "o", "t", "a", "l">>) >>
        ELSE << asis(<<"U+00E5", "U+2022", "U+2020">>), asis(<<"U+00E5", "U+201C">>), low(<<"p", "r", "o", "d", "u", "c", "t">>), low(<<"i", "t", "e", "m">>),
                low(<<"n", "a", "m", "e">>) >>

\* C24: the binding reads the keys of the first row alone; each role is
\* bound to the first key, in key order, that holds one of its tokens, and
\* stays unbound when no key does; with the date unbound the time series is
\* empty, with the product unbound the top products are empty, with the
\* amount unbound the total and every amount are zero, and the call returns.
C24_RoleBinding ==
    (handler = "_compute_stats" /\ pc # "call" /\ sales # <<>> /\ sales[1].isRecord) =>
        LET colmap == detect_columns(sales)
            names == keys(sales[1])
            bound(role) == IF FirstKeyWith(names, RoleTokens(role)) = 0 THEN <<>>
                           ELSE names[FirstKeyWith(names, RoleTokens(role))]
        IN  /\ colmap = detect_columns(<<sales[1]>>)
            /\ colmap.date = bound("date")
            /\ colmap.sales = bound("sales")
            /\ colmap.product = bound("product")
            /\ (\/ \A i \in 1..Len(sales) : sales[i].isRecord
                \/ colmap = [date |-> <<>>, sales |-> <<>>, product |-> <<>>])
                  => pc = "returned"
            /\ pc = "returned" =>
                 /\ colmap.date = <<>> => stats.timeseries = <<>>
                 /\ colmap.product = <<>> => stats.top_products = <<>>
                 /\ colmap.sales = <<>> =>
                      /\ stats.total_sales = Fin(0)
                      /\ \A i \in 1..Len(stats.timeseries) : stats.timeseries[i][2] = Fin(0)
                      /\ \A i \in 1..Len(stats.top_products) :
                             stats.top_products[i][2] = Fin(0)

\* The row with two date columns and a column of two roles came first: the
\* first date column is bound and one column is bound to two roles.
C24_Witness ==
    /\ StatsReturned
    /\ Len(keys(sales[1])) = 4
    /\ detect_columns(sales).date = <<"o", "r", "d", "e", "r", "_", "d", "a", "t", "e">>
    /\ detect_columns(sales).sales = <<"i", "t", "e", "m", "_", "t", "o", "t", "a", "l">>
    /\ detect_columns(sales).product = <<"i", "t", "e", "m", "_", "t", "o", "t", "a", "l">>

\* The text _to_number parses: the image of the value without the
\* separators and the two currency literals, trimmed.
Cleaned(x) ==
    strip(replace(replace(replace(x, <<",">>, <<>>), <<"U+00C2", "U+00A5">>, <<>>), <<"U+00E5", "U+2020", "U+2020">>, <<>>))

\* C25 (as claimed): _to_number never raises; it returns the number written
\* in the cleaned text where the text is numeric, and 0.0 for every other
\* value.
C25_ToNumberTotal ==
    (handler = "_to_number" /\ pc # "call") =>
        /\ pc = "returned" /\ raised = ""
        /\ LET parsed == float_parse(Cleaned(data))
               numeric == parsed.ok /\ parsed.val.kind = "fin"
           IN  outcome.value = IF numeric THEN parsed.val ELSE Fin(0)

\* The lines of a text that are not blank.
NonBlankLines(text) == SelectSeq(splitlines(text), LAMBDA l : strip(l) # <<>>)

\* C26: _parse_csv_simple returns, for a text with a header line, one row
\* for every non-blank line after it, in the order of the lines; the keys of
\* each row are the header names, the value under a header is the trimmed
\* cell at its place (the last place of a name given twice), and the empty
\* string where the line has no cell at that place.
C26_CsvRows ==
    (handler = "_parse_csv_simple" /\ pc # "call") =>
        /\ pc = "returned" /\ raised = ""
        /\ LET lines == NonBlankLines(data)
               headers == [i \in 1..Len(split(lines[1], ",")) |->
                              strip(split(lines[1], ",")[i])]
           IN  IF lines = <<>> THEN sales = <<>>
               ELSE /\ Len(sales) = Len(lines) - 1
                    /\ \A k \in 1..Len(sales) :
                         LET cells == split(lines[k + 1], ",")
                         IN  /\ sales[k].isRecord
                             /\ {keys(sales[k])[i] : i \in 1..Len(keys(sales[k]))}
                                   = {headers[i] : i \in 1..Len(headers)}
                             /\ \A i \in 1..Len(headers) :
                                  (\A j \in (i + 1)..Len(headers) : headers[j] # headers[i])
                                     => get(sales[k], headers[i], <<"<no key>">>)
                                          = IF i <= Len(cells) THEN strip(cells[i]) ELSE <<>>

\* A line with one cell under two different headers gave a row with the
\* empty string under the second.
C26_Witness ==
    /\ handler = "_parse_csv_simple" /\ pc = "returned"
    /\ data = <<"h", ",", "1", "U+000A", "1">>
    /\ sales = << Record(<< <<<<"h">>, <<"1">>>>, <<<<"1">>, <<>> >> >>) >>

\* The category the claim gives to the prompt of the request: the one of the
\* intent for sales, hr and marketing, else the one the classifier found.
PromptCategory ==
    IF requested_analysis_type = <<"s", "a", "l", "e", "s">> THEN "sales_data"
    ELSE IF requested_analysis_type = <<"h", "r">> THEN "hr_data"
    ELSE IF requested_analysis_type = <<"m", "a", "r", "k", "e", "t", "i", "n", "g">> THEN "marketing_data"
    ELSE detected_data_type

\* C27 (as claimed): the prompt of a tabular request is built for the
\* category of the intent when the intent is sales, hr or marketing, whatever
\* the classifier found, and for the category the classifier found otherwise:
\* data_type is that category and the prompt holds its instructions.
C27_IntentSelectsTemplate ==
    (Main /\ InStages("CLASSIFIED") /\ InStages("PROMPTED")) =>
        /\ data_type = PromptCategory
        /\ prompt.instructions = get_analysis_instructions(PromptCategory)

\* validate_sales_analysis_output on the objects of the model: overview
\* and insights are there, and every insight holds a title and a detail.
ValidOutput(output) ==
    /\ {"overview", "insights"} \subseteq DOMAIN output
    /\ \A i \in 1..Len(output.insights) : {"title", "detail"} \subseteq DOMAIN output.insights[i]

\* C28 (as claimed): the response object of every 200 answer of the v2
\* handler to an analysis request passes validate_sales_analysis_output: a
\* reply that fails parsing or validation in both attempts is replaced by
\* the fallback object.
C28_ValidOrFallback ==
    (V2 /\ pc = "responded" /\ response.statusCode = 200) =>
        /\ ValidOutput(response.body.response)
        /\ (modelCalls = 1 /\ ~outcome.raised
              /\ outcome.text \in {<<"<invalid object>">>, <<"{", "}">>, <<"s", "o", "r", "r", "y">>})
              => V2Fallback

\* ---------------------------------------------------------------- C29

LegacyAnswered == handler = "sap-claude-handler.py" /\ pc = "responded"

AiAnalysisFailed ==
    /\ response.statusCode = 500
    /\ "error" \in DOMAIN response.body
    /\ response.body.error # <<>>
    /\ response.body.error[1] = "AI analysis failed: "

\* C29: in the legacy handler, a request with data, with the model enabled
\* and a model call that returned, is answered 200 with the text of the
\* model, and the 500 answer 'AI analysis failed' is given only after a
\* model call that raised.
C29_SuccessIs200 ==
    LegacyAnswered =>
       /\ (modelCalls = 1 /\ ~outcome.raised =>
             /\ response.statusCode = 200
             /\ "full_analysis" \in DOMAIN response.body
             /\ response.body.full_analysis = outcome.text)
       /\ (AiAnalysisFailed => modelCalls = 1 /\ outcome.raised)

\* What the legacy handler does hold to: the model is called once exactly
\* when the request has rows, the model is enabled and no echo is asked
\* for, and every returned or raised call is answered 500 'AI analysis
\* failed'.
C29_EveryCallIs500 ==
    LegacyAnswered =>
       /\ (modelCalls = 1 <=> AiAnalysisFailed)
       /\ (modelCalls = 1 => sales # <<>>)
       /\ (modelCalls = 1 /\ ~outcome.raised =>
              response.body.error[2] = "name 'response_format' is not defined")

C29_Reached == LegacyAnswered /\ modelCalls = 1 /\ ~outcome.raised /\ outcome.text # <<>>

\* ---------------------------------------------------------------- C30

\* At most one row of format_profiles for a tenant and a signature.
OneProfilePerSignature ==
    \A i, j \in 1..Len(format_profiles) :
       /\ format_profiles[i].tenant_id = format_profiles[j].tenant_id
       /\ format_profiles[i].format_signature = format_profiles[j].format_signature
       => i = j

\* The rows of column_mappings of the profile p.
MappingsOf(p) ==
    [m \in {x \in DOMAIN column_mappings : x.profile_id = p} |-> column_mappings[m]]

\* The step in which the save of s returns True leaves, for its profile,
\* exactly the mappings of that save that are not ignored, each once.
SaveReplacesMappings(s) ==
    saves[s].pc # "returned" /\ saves'[s].pc = "returned" /\ saves'[s].returns
    => MappingsOf(saves[s].profile_id)' =
          SetToBag({[profile_id |-> saves[s].profile_id,
                     source_header |-> m[1],
                     target_field |-> IF m[2] = <<"c", "u", "s", "t", "o", "m", ":", " ", "a", "m", "o", "u", "n", "t">> THEN <<"a", "m", "o", "u", "n", "t">> ELSE m[2]] :
                    m \in {saves[s].mappings[i] : i \in
                             {k \in 1..Len(saves[s].mappings) :
                                 saves[s].mappings[k][2] \notin
                                     {<<>>, <<"u", "n", "k", "n", "o", "w", "n">>, <<"i", "g", "n", "o", "r", "e">>, <<"U+4E0D", "U+660E">>, <<"U+7121", "U+8996", "U+3059", "U+308B">>,
                                      <<"c", "u", "s", "t", "o", "m", ":">>}}}})

\* C30: after any sequence or interleaving of saves, format_profiles has at
\* most one row for a tenant and a signature (two saves at once of a new
\* signature do not both insert a profile), and when a save has completed
\* the mappings of its profile are exactly the mappings of that save that
\* are not ignored: earlier mappings are replaced, never added to.
C30_OneProfileLatestMappings ==
    /\ []OneProfilePerSignature
    /\ [][\A s \in Savers : SaveReplacesMappings(s)]_vars

\* The first half of C30 alone, and the second half alone.
C30_OneProfile == handler = "save_format_profile" => OneProfilePerSignature

C30_LatestMappings == [][\A s \in Savers : SaveReplacesMappings(s)]_vars

\* What the store does hold to: while one invocation alone has made calls,
\* both halves of C30 hold.
C30_OneSaverAlone ==
    /\ [](saves[2].pc = "idle" => OneProfilePerSignature)
    /\ [][saves'[2].pc = "idle" => SaveReplacesMappings(1)]_vars

\* Two saves at once of the same profile: both have deleted, both insert.
C30_Reached ==
    /\ saves[1].pc = "returned" /\ saves[1].returns
    /\ saves[2].pc = "returned" /\ saves[2].returns
    /\ saves[1].profile_id = saves[2].profile_id
    /\ \E m \in DOMAIN column_mappings : column_mappings[m] > 1
====
